---- MODULE Spec2Model ----
(***************************************************************************)
(* Model of the text-to-SQL pipeline: the self-correcting executor         *)
(* (agents/critic.py), the schema resolver (agents/resolver.py), the       *)
(* execution engine's table registry (core/engine.py) and the helpers of   *)
(* core/utils.py.                                                          *)
(***************************************************************************)
EXTENDS Integers, Sequences, FiniteSets, TLC

(***************************************************************************)
(* Text.  A text is a sequence of tokens; a token stands for a fixed       *)
(* piece of a Python string: "sp" is a blank, "nl" a line break, "fence"   *)
(* three backticks, "SELECT"/"select" the SQL keyword in either case,       *)
(* "WITH"/"with" a word that begins with one of the keywords WITH, INSERT,  *)
(* UPDATE, DELETE in either case, and "sql" a word that begins with none   *)
(* of the five keywords.  Concatenating the pieces gives the string.       *)
(***************************************************************************)
Tokens == {"sp", "nl", "fence", "SELECT", "select", "WITH", "with", "sql"}

Whitespace == {"sp", "nl"}

\* str.upper() on one token
Upper(tok) ==
    IF tok = "select" THEN "SELECT"
    ELSE IF tok = "with" THEN "WITH"
    ELSE tok

RECURSIVE LStrip(_)
LStrip(s) ==
    IF s # <<>> /\ Head(s) \in Whitespace THEN LStrip(Tail(s)) ELSE s

RECURSIVE RStrip(_)
RStrip(s) ==
    IF s # <<>> /\ s[Len(s)] \in Whitespace
    THEN RStrip(SubSeq(s, 1, Len(s) - 1))
    ELSE s

\* str.strip()
Strip(s) == RStrip(LStrip(s))

\* str.splitlines(): the lines between line breaks; a final line break
\* opens no further (empty) line, and the empty text has no line.
RECURSIVE SplitLines(_)
SplitLines(s) ==
    IF s = <<>> THEN <<>>
    ELSE IF \E i \in 1..Len(s) : s[i] = "nl"
         THEN LET i == CHOOSE j \in 1..Len(s) :
                           s[j] = "nl" /\ \A k \in 1..(j - 1) : s[k] # "nl"
              IN  <<SubSeq(s, 1, i - 1)>> \o SplitLines(SubSeq(s, i + 1, Len(s)))
         ELSE <<s>>

\* "\n".join(lines)
RECURSIVE JoinLines(_)
JoinLines(lines) ==
    IF lines = <<>> THEN <<>>
    ELSE IF Len(lines) = 1 THEN lines[1]
    ELSE lines[1] \o <<"nl">> \o JoinLines(Tail(lines))

\* cleaned.upper().startswith(("SELECT", "WITH", "INSERT", "UPDATE", "DELETE"))
StartsWithSqlKeyword(s) == s # <<>> /\ Upper(s[1]) \in {"SELECT", "WITH"}

\* lines[0].strip().startswith(three backticks)
IsFenceOpen(line) == Strip(line) # <<>> /\ Strip(line)[1] = "fence"

\* lines[-1].strip() == three backticks
IsFenceClose(line) == Strip(line) = <<"fence">>

DropFirstFence(lines) ==
    IF lines # <<>> /\ IsFenceOpen(lines[1]) THEN Tail(lines) ELSE lines

\* Variant: the closing fence line is kept.
DropLastFence_Kept(lines) == lines

\* if lines and lines[-1].strip() == fence: lines = lines[:-1]
DropLastFence(lines) ==
    IF lines # <<>> /\ IsFenceClose(lines[Len(lines)])
    THEN SubSeq(lines, 1, Len(lines) - 1)
    ELSE lines

clean_sql(raw) ==
    LET cleaned == Strip(raw)
    IN  IF StartsWithSqlKeyword(cleaned) THEN cleaned
        ELSE IF \E i \in 1..Len(cleaned) : cleaned[i] = "fence"
             THEN Strip(JoinLines(DropLastFence(DropFirstFence(SplitLines(cleaned)))))
             ELSE cleaned

(***************************************************************************)
(* The self-correcting executor: CriticAgent.execute_with_retry.           *)
(***************************************************************************)

\* Largest retry budget explored.
MaxRetriesBound == 3

\* What the text-generation capability may answer to a correction request.
RawOutputs ==
    { <<"sp", "SELECT", "sp">>,
      <<"fence", "sql", "nl", "select", "nl", "fence">>,
      <<"sql">> }

\* str(e) of the ValueError raised by DuckDBEngine.execute
ErrorMessages == {"SQL execution failed: e1", "SQL execution failed: e2"}

\* data frames DuckDBEngine.execute may return
DataFrames == {"df1", "df2"}

Questions == {"q"}

NoResult == [pending |-> TRUE]

VARIABLES
    max_retries,    \* CriticAgent.max_retries
    question,       \* the question argument
    critic_pc,      \* position in execute_with_retry
    attempt,        \* the loop variable
    current_sql,    \* local current_sql
    history,        \* local history
    result,         \* the value returned, NoResult before
    executions,     \* every engine.execute call of the invocation, with its outcome
    corrections,    \* every correction prompt built, in order
    generation_failed  \* TRUE once a llm_chat call of the invocation has raised

critic_vars ==
    <<max_retries, question, critic_pc, attempt, current_sql, history, result,
      executions, corrections, generation_failed>>

VARIABLES
    _tables,             \* DuckDBEngine._tables, the registry
    conn,                \* the tables of the DuckDB connection: name -> content
    data_dir,            \* the CSV files of the data directory: stem -> file
    _schema,             \* SemanticResolver._schema
    _all_columns,        \* SemanticResolver._all_columns
    _mode,               \* SemanticResolver._mode
    _column_embeddings,  \* SemanticResolver._column_embeddings (None in fuzzy mode)
    partial_ratio,       \* thefuzz.fuzz.partial_ratio, as a table
    cosine,              \* 100 * cosine similarity of two embeddings, as a table
    resolver_pc,         \* "idle", "enriched" once enrich has returned, "raised"
    enrich_question,     \* the question argument of the enrich call
    enrich_schema,       \* the schema argument of the enrich call
    enriched             \* the value enrich returned

VARIABLES
    run_pc,            \* position of the pipeline run (Orchestrator.run or query.stream)
    request_question,  \* the question of the run
    chat_history,      \* request.chat_history
    selectedTables,    \* request.selectedTables
    events,            \* the events the stream has yielded, in order
    calls,             \* the components the run has invoked, in order
    context,           \* the context string built for SQL generation
    run_result,        \* what Orchestrator.run returned, NoResult before
    stream_read        \* the engine read the stream is in: position of its
                       \* loop over the tables and the rows collected so far

pipeline_vars ==
    <<run_pc, request_question, chat_history, selectedTables, events, calls,
      context, run_result, stream_read>>

VARIABLES
    util_pc,       \* "idle", then the utility function that was applied
    util_input,    \* the argument it was applied to
    util_output,   \* the value it returned
    schema_reads,  \* what each schema read of the stream in flight observed
    requests,      \* the /upload and DELETE /tables requests in flight
    enrich_call,   \* the enrich call running in a worker thread
    critic_runs,   \* the locals of each concurrent execute_with_retry call
    history_of     \* the attempt history, by the scope that holds it

util_vars == <<util_pc, util_input, util_output>>

extra_vars ==
    <<util_vars, schema_reads, requests, enrich_call, critic_runs, history_of>>

engine_vars == <<_tables, conn, data_dir>>

resolver_vars ==
    <<_schema, _all_columns, _mode, _column_embeddings, partial_ratio, cosine,
      resolver_pc, enrich_question, enrich_schema, enriched>>

\* Variant: the history keeps only the latest failure.
HistoryAppend_KeepsLatestOnly(h, sql, err) == <<[sql |-> sql, error |-> err]>>

\* history.append({"sql": current_sql, "error": error_message})
HistoryAppend(h, sql, err) == Append(h, [sql |-> sql, error |-> err])

\* Variant: the last attempt is recognised one iteration early.
IsLastAttempt_OneEarly(a, budget) == a = budget - 1

\* if attempt == self.max_retries
IsLastAttempt(a, budget) == a = budget

\* Variant: range(1, self.max_retries + 2).
RangeHasNext_OneMore(a, budget) == a + 1 <= budget + 1

\* for attempt in range(1, self.max_retries + 1): is there a value after a
RangeHasNext(a, budget) == a + 1 <= budget

\* get_correction_prompt(schema_str, question, current_sql, error_message, history):
\* the user message carries the question, one "Attempt i / SQL / Error" block per
\* history entry, the current failing SQL and the current error.
get_correction_prompt(q, failed_sql, error_message, h) ==
    [ question      |-> q,
      attempts      |-> [i \in 1..Len(h) |->
                            [n |-> i, sql |-> h[i].sql, error |-> h[i].error]],
      failed_sql    |-> failed_sql,
      error_message |-> error_message ]

\* Variant: attempts counts the retries, not the tries.
SuccessResult_CountsRetries(sql, data, a) ==
    [success |-> TRUE, sql |-> sql, data |-> data, attempts |-> a - 1]

SuccessResult(sql, data, a) ==
    [success |-> TRUE, sql |-> sql, data |-> data, attempts |-> a]

FailureResult(sql, err, a) ==
    [success |-> FALSE, sql |-> sql, error |-> err, attempts |-> a]

\* Variant: the return after the loop reports one attempt.
ExceededResult_OneAttempt(sql, budget) ==
    [success |-> FALSE, sql |-> sql, error |-> "Max retries exceeded",
     attempts |-> 1]

\* the return after the loop
ExceededResult(sql, budget) ==
    [success |-> FALSE, sql |-> sql, error |-> "Max retries exceeded",
     attempts |-> budget]

CriticInit ==
    /\ max_retries \in 0..MaxRetriesBound
    /\ question \in Questions
    /\ current_sql \in {clean_sql(r) : r \in RawOutputs}
    /\ critic_pc = "called"
    /\ attempt = 0
    /\ history = <<>>
    /\ result = NoResult
    /\ executions = <<>>
    /\ corrections = <<>>
    /\ generation_failed = FALSE

\* Entering the for loop (or falling through it when the range is empty).
CriticEnterLoop ==
    /\ critic_pc = "called"
    /\ IF RangeHasNext(0, max_retries)
       THEN /\ attempt' = 1
            /\ critic_pc' = "attempting"
            /\ result' = result
       ELSE /\ attempt' = attempt
            /\ critic_pc' = "returned"
            /\ result' = ExceededResult(current_sql, max_retries)
    /\ UNCHANGED <<max_retries, question, current_sql, history, executions, corrections,
                   generation_failed>>
    /\ UNCHANGED <<engine_vars, resolver_vars, pipeline_vars>>
    /\ UNCHANGED extra_vars

\* self.engine.execute(current_sql) returns data: the call returns at once.
CriticExecuteOk(data) ==
    /\ critic_pc = "attempting"
    /\ executions' = Append(executions, [sql |-> current_sql, ok |-> TRUE, out |-> data])
    /\ result' = SuccessResult(current_sql, data, attempt)
    /\ critic_pc' = "returned"
    /\ UNCHANGED <<max_retries, question, attempt, current_sql, history, corrections,
                   generation_failed>>
    /\ UNCHANGED <<engine_vars, resolver_vars, pipeline_vars>>
    /\ UNCHANGED extra_vars

\* self.engine.execute(current_sql) raises ValueError: the except branch up to
\* the await of llm_chat, or the return on the last attempt.
CriticExecuteFail(err) ==
    /\ critic_pc = "attempting"
    /\ executions' = Append(executions, [sql |-> current_sql, ok |-> FALSE, out |-> err])
    /\ history' = HistoryAppend(history, current_sql, err)
    /\ IF IsLastAttempt(attempt, max_retries)
       THEN /\ result' = FailureResult(current_sql, err, attempt)
            /\ critic_pc' = "returned"
            /\ corrections' = corrections
       ELSE /\ result' = result
            /\ critic_pc' = "correcting"
            /\ corrections' =
                   Append(corrections,
                          get_correction_prompt(question, current_sql, err, history'))
    /\ UNCHANGED <<max_retries, question, attempt, current_sql, generation_failed>>
    /\ UNCHANGED <<engine_vars, resolver_vars, pipeline_vars>>
    /\ UNCHANGED extra_vars

\* llm_chat returns raw text: current_sql = clean_sql(raw), next loop value.
CriticCorrectionOk(raw) ==
    /\ critic_pc = "correcting"
    /\ current_sql' = clean_sql(raw)
    /\ IF RangeHasNext(attempt, max_retries)
       THEN /\ attempt' = attempt + 1
            /\ critic_pc' = "attempting"
            /\ result' = result
       ELSE /\ attempt' = attempt
            /\ critic_pc' = "returned"
            /\ result' = ExceededResult(current_sql', max_retries)
    /\ UNCHANGED <<max_retries, question, history, executions, corrections,
                   generation_failed>>
    /\ UNCHANGED <<engine_vars, resolver_vars, pipeline_vars>>
    /\ UNCHANGED extra_vars

\* Variant: a failed generation is swallowed and the loop goes on with the
\* statement unchanged.
CriticCorrectionFail_Swallowed ==
    /\ critic_pc = "correcting"
    /\ generation_failed' = TRUE
    /\ attempt' = attempt + 1
    /\ critic_pc' = "attempting"
    /\ UNCHANGED <<max_retries, question, current_sql, history, result,
                   executions, corrections>>
    /\ UNCHANGED <<engine_vars, resolver_vars, pipeline_vars>>
    /\ UNCHANGED extra_vars

\* llm_chat raises: the exception leaves the except block and the function.
CriticCorrectionFail ==
    /\ critic_pc = "correcting"
    /\ generation_failed' = TRUE
    /\ critic_pc' = "raised"
    /\ UNCHANGED <<max_retries, question, attempt, current_sql, history, result,
                   executions, corrections>>
    /\ UNCHANGED <<engine_vars, resolver_vars, pipeline_vars>>
    /\ UNCHANGED extra_vars

CriticNext ==
    \/ CriticEnterLoop
    \/ \E data \in DataFrames : CriticExecuteOk(data)
    \/ \E err \in ErrorMessages : CriticExecuteFail(err)
    \/ \E raw \in RawOutputs : CriticCorrectionOk(raw)
    \/ CriticCorrectionFail

(***************************************************************************)
(* Names.  A name (file stem, table, column, word of a question) is a      *)
(* sequence of one-character strings.                                      *)
(***************************************************************************)
UpperCase == {"A", "B", "K", "X"}

Digits == {"0", "1", "2", "3", "4", "5", "6", "7", "8", "9"}

\* characters of the model that are neither letters, digits nor "_"
NonWord == {" ", ".", "?", "-"}

\* [a-zA-Z0-9_], the complement of \W
IsWordChar(c) == c \notin NonWord

\* [a-zA-Z_]
IsLetterOrUnderscore(c) == IsWordChar(c) /\ c \notin Digits

\* str.lower() on one character
LowerChar(c) ==
    CASE c = "A" -> "a"
      [] c = "B" -> "b"
      [] c = "K" -> "k"
      [] c = "X" -> "x"
      [] OTHER   -> c

\* str.lower()
Lower(s) == [i \in 1..Len(s) |-> LowerChar(s[i])]

\* clean[:64]
MaxIdentifierLen == 64

Truncate(s, n) == SubSeq(s, 1, IF Len(s) < n THEN Len(s) ELSE n)

IsWordCharTest(c) == IsWordChar(c)

\* Variant: a name that starts with a digit is returned without the prefix.
sanitize_identifier_DigitsUnprefixed(identifier) ==
    LET removed == SelectSeq(identifier, IsWordCharTest)
        clean   == IF removed = <<>> THEN <<"t", "_">> ELSE removed
    IN  Lower(Truncate(clean, MaxIdentifierLen))

\* re.sub(r'[^a-zA-Z0-9_]', '', identifier), the "t_" prefix, clean[:64].lower()
sanitize_identifier(identifier) ==
    LET removed == SelectSeq(identifier, IsWordCharTest)
        clean   == IF removed = <<>> \/ ~IsLetterOrUnderscore(removed[1])
                   THEN <<"t", "_">> \o removed
                   ELSE removed
    IN  Lower(Truncate(clean, MaxIdentifierLen))

(***************************************************************************)
(* The execution engine: DuckDBEngine and the upload and drop requests.    *)
(***************************************************************************)

\* A CSV file: its stem, whether read_csv_auto can load it, and the table it
\* loads as: per column its name, its type and its distinct non-null values.
FileA ==
    [ stem     |-> <<"a">>,
      readable |-> TRUE,
      content  |-> << [column |-> <<"X">>, type |-> "BIGINT",
                       values |-> <<"v1", "v2", "v3", "v4", "v5", "v6">>],
                      [column |-> <<"y", " ", "z">>, type |-> "VARCHAR",
                       values |-> <<"u", "v">>] >> ]

FileA2 ==
    [ stem     |-> <<"A", ".">>,
      readable |-> TRUE,
      content  |-> << [column |-> <<"x">>, type |-> "VARCHAR",
                       values |-> <<"u">>] >> ]

FileB ==
    [ stem     |-> <<"B", " ">>,
      readable |-> TRUE,
      content  |-> << [column |-> <<"x">>, type |-> "BIGINT",
                       values |-> <<"v7", "v8">>] >> ]

FileBad ==
    [ stem     |-> <<"a", "?">>,
      readable |-> FALSE,
      content  |-> <<>> ]

\* what the data directory may hold when the engine is constructed, in the
\* order Path.glob lists it: the listing is not sorted, so a directory of two
\* files comes in either order
InitialDirs == { <<>>, <<FileA>>, <<FileA, FileB>>, <<FileB, FileA>> }

\* files a client may upload
UploadFiles == {FileA2, FileB, FileBad}

\* table names a client may name in a request
TableNames == {<<"a">>, <<"b">>}

InSeq(x, seq) == \E i \in 1..Len(seq) : seq[i] = x

ListRemove_Kept(seq, x) == seq

\* list.remove(x): the first occurrence goes
RECURSIVE ListRemove(_, _)
ListRemove(seq, x) ==
    IF seq = <<>> THEN <<>>
    ELSE IF Head(seq) = x THEN Tail(seq)
    ELSE <<Head(seq)>> \o ListRemove(Tail(seq), x)

\* DESCRIBE "table"
Describe(c, table) ==
    [i \in 1..Len(c[table]) |->
        [column |-> c[table][i].column, type |-> c[table][i].type]]

\* schema[table] = ... on an insertion-ordered dict
DictSet(d, key, value) ==
    IF \E i \in 1..Len(d) : d[i].key = key
    THEN [i \in 1..Len(d) |-> IF d[i].key = key
                              THEN [key |-> key, value |-> value]
                              ELSE d[i]]
    ELSE Append(d, [key |-> key, value |-> value])

DictKeys(d) == [i \in 1..Len(d) |-> d[i].key]

DictHas(d, key) == \E i \in 1..Len(d) : d[i].key = key

DictGet(d, key) == d[CHOOSE i \in 1..Len(d) : d[i].key = key].value

\* DuckDBEngine.get_schema: one DESCRIBE per registered table
RECURSIVE SchemaOf(_, _, _)
SchemaOf(tables, c, acc) ==
    IF tables = <<>> THEN acc
    ELSE SchemaOf(Tail(tables), c, DictSet(acc, Head(tables), Describe(c, Head(tables))))

get_schema(tables, c) == SchemaOf(tables, c, <<>>)

\* {t: cols for t, cols in schema.items() if t in selected_tables}
PruneSchema(schema, selected) ==
    LET Keep(e) == e.key \in selected
    IN  SelectSeq(schema, Keep)

\* DuckDBEngine.__init__: one table per CSV file of the data directory, in
\* the order of the listing
RECURSIVE LoadDir(_, _, _)
LoadDir(files, tables, c) ==
    IF files = <<>> THEN [tables |-> tables, conn |-> c]
    ELSE LET name == sanitize_identifier(Head(files).stem)
         IN  LoadDir(Tail(files), Append(tables, name),
                     [t \in DOMAIN c \cup {name} |->
                         IF t = name THEN Head(files).content ELSE c[t]])

\* Path(data_dir).glob("*.csv"): the files of the directory by stem
DirFiles(files) ==
    [stem \in {files[i].stem : i \in 1..Len(files)} |->
        files[CHOOSE i \in 1..Len(files) : files[i].stem = stem]]

(***************************************************************************)
(* The schema resolver: SemanticResolver.                                  *)
(***************************************************************************)
fuzzy_threshold == 70

\* rows of the sampling query: LIMIT 5
SampleLimit == 5

_STOP_WORDS ==
    { <<"t", "h", "e">>, <<"a">>, <<"a", "n">>, <<"i", "s">>,
      <<"i", "n">>, <<"o", "f">>, <<"f", "o", "r">>, <<"b", "y">>,
      <<"a", "n", "d">>, <<"o", "r">>, <<"t", "o">>,
      <<"s", "h", "o", "w">>, <<"m", "e">>, <<"w", "h", "a", "t">>,
      <<"h", "o", "w">>, <<"m", "a", "n", "y">>,
      <<"w", "h", "i", "c", "h">>, <<"w", "h", "o">>,
      <<"w", "h", "e", "r", "e">>, <<"g", "e", "t">>,
      <<"f", "i", "n", "d">>, <<"l", "i", "s", "t">>,
      <<"g", "i", "v", "e">>, <<"w", "i", "t", "h">>,
      <<"p", "e", "r">> }

\* Longest question explored.
MaxQuestionLen == 3

QuestionChars == {"K", "c", "a", " "}

\* the words the questions explored can hold, lower-cased, stop words removed
Keywords == {<<"k">>, <<"c">>}

\* lower-cased column names of the files above
LowerColumnNames == {<<"x">>, <<"y", " ", "z">>}

\* scores the similarity functions may give
Scores == {fuzzy_threshold - 1, fuzzy_threshold, fuzzy_threshold + 1}

ScorePairs == Keywords \X LowerColumnNames

\* the similarity functions explored: every partial_ratio table when the
\* embedder is missing; with the embedder, a level partial_ratio below or at
\* the threshold and a cosine table that falls below or rises above it
FuzzyModeTables ==
    { [mode |-> "fuzzy", fz |-> f, cos |-> <<>>] : f \in [ScorePairs -> Scores] }

HybridModeTables ==
    { [mode |-> "hybrid", fz |-> [p \in ScorePairs |-> v], cos |-> g] :
        v \in {fuzzy_threshold - 1, fuzzy_threshold},
        g \in [ScorePairs -> {fuzzy_threshold - 1, fuzzy_threshold + 1}] }

\* Questions explored: every word is one letter.
RECURSIVE SeqsUpTo(_, _)
SeqsUpTo(S, n) ==
    IF n = 0 THEN {<<>>}
    ELSE LET shorter == SeqsUpTo(S, n - 1)
         IN  shorter \cup {Append(q, c) : q \in shorter, c \in S}

ResolverQuestions ==
    { q \in SeqsUpTo(QuestionChars, MaxQuestionLen) :
        \A i \in 1..(Len(q) - 1) : ~(IsWordChar(q[i]) /\ IsWordChar(q[i + 1])) }

\* re.split(r"[\s\W]+", text): the pieces between maximal runs of non-word
\* characters, the empty pieces at either end included.
RECURSIVE SplitWords(_, _, _)
SplitWords(s, cur, inRun) ==
    IF s = <<>> THEN <<cur>>
    ELSE IF ~IsWordChar(Head(s))
         THEN IF inRun THEN SplitWords(Tail(s), <<>>, TRUE)
              ELSE <<cur>> \o SplitWords(Tail(s), <<>>, TRUE)
         ELSE SplitWords(Tail(s), Append(cur, Head(s)), FALSE)

\* Variant: stop words are kept.
IsKeywordToken_KeepsStopWords(t) == t # <<>>

\* if t and t not in _STOP_WORDS
IsKeywordToken(t) == t # <<>> /\ t \notin _STOP_WORDS

\* SemanticResolver._extract_keywords
_extract_keywords(q) == SelectSeq(SplitWords(Lower(q), <<>>, FALSE), IsKeywordToken)

\* [{"table", "column", "type"} for table, cols in schema.items() for col in cols]
RECURSIVE FlattenSchema(_)
FlattenSchema(schema) ==
    IF schema = <<>> THEN <<>>
    ELSE [i \in 1..Len(Head(schema).value) |->
             [table  |-> Head(schema).key,
              column |-> Head(schema).value[i].column,
              type   |-> Head(schema).value[i].type]]
         \o FlattenSchema(Tail(schema))

\* self._embedder.encode([e["column"].lower() for e in self._all_columns]):
\* an embedding is represented by the text it encodes
EncodeColumns(columns) == [i \in 1..Len(columns) |-> Lower(columns[i].column)]

\* SemanticResolver._get_semantic_scores: the scores of the keyword against
\* the cached embeddings; cosine_similarity rejects the encoding of an empty
\* list of names, so with no cached column the call raises ValueError
_get_semantic_scores(kw, embeddings, cos) ==
    IF embeddings = <<>> THEN [raised |-> TRUE, scores |-> <<>>]
    ELSE [raised |-> FALSE,
          scores |-> [i \in 1..Len(embeddings) |-> cos[<<kw, embeddings[i]>>]]]

\* semantic_scores = self._get_semantic_scores(kw) if self._embedder else None,
\* once per keyword and before the columns are looked at
semantic_scores(kw, mode, embeddings, cos) ==
    IF mode = "hybrid" THEN _get_semantic_scores(kw, embeddings, cos)
    ELSE [raised |-> FALSE, scores |-> <<>>]

\* max(fuzzy_score, semantic_scores[i])
Max2(a, b) == IF b > a THEN b ELSE a

\* score of keyword kw against entry i of the column list
ColumnScore(kw, i, columns, mode, scores, fz) ==
    LET fuzzy_score == fz[<<kw, Lower(columns[i].column)>>]
    IN  IF mode = "hybrid" THEN Max2(fuzzy_score, scores[i]) ELSE fuzzy_score

\* Variant: the threshold is taken on the 0-1 scale of a cosine similarity.
ClearsThreshold_UnitScale(score) == score * 100 >= fuzzy_threshold

\* if score >= self.fuzzy_threshold
ClearsThreshold(score) == score >= fuzzy_threshold

\* Variant: a later keyword with an equal score replaces the earlier one.
ReplacesBest_LaterWinsTies(best, key, score) ==
    ~DictHas(best, key) \/ score >= DictGet(best, key).score

\* if key not in best or score > best[key]["score"]
ReplacesBest(best, key, score) ==
    ~DictHas(best, key) \/ score > DictGet(best, key).score

\* Variant: the column list is not restricted to the schema argument.
IsActiveTable_Unrestricted(table, active_tables) == TRUE

\* if entry["table"] not in active_tables: continue
IsActiveTable(table, active_tables) == table \in active_tables

\* semantic_scores[i] raises IndexError at an entry of an active table that
\* lies past the end of the scores
ScanRaises(columns, active_tables, mode, scores) ==
    /\ mode = "hybrid"
    /\ \E i \in 1..Len(columns) :
          /\ IsActiveTable(columns[i].table, active_tables)
          /\ i > Len(scores)

\* one pass of the inner loop: entries i.. of the column list for keyword kw
RECURSIVE ScanColumns(_, _, _, _, _, _, _, _)
ScanColumns(best, kw, i, columns, active_tables, mode, scores, fz) ==
    IF i > Len(columns) THEN best
    ELSE LET entry == columns[i]
             score == ColumnScore(kw, i, columns, mode, scores, fz)
             key   == <<entry.table, entry.column>>
             next  == IF IsActiveTable(entry.table, active_tables)
                         /\ ClearsThreshold(score)
                         /\ ReplacesBest(best, key, score)
                      THEN DictSet(best, key,
                                   [keyword |-> kw, column |-> entry.column,
                                    table |-> entry.table, score |-> score])
                      ELSE best
         IN  ScanColumns(next, kw, i + 1, columns, active_tables, mode, scores, fz)

\* the outer loop over the keywords: best after the last keyword, or raised
\* at the first keyword whose scores raise
RECURSIVE ScanKeywords(_, _, _, _, _, _, _, _)
ScanKeywords(best, keywords, columns, active_tables, mode, embeddings, fz, cos) ==
    IF keywords = <<>> THEN [raised |-> FALSE, best |-> best]
    ELSE LET kw       == Head(keywords)
             semantic == semantic_scores(kw, mode, embeddings, cos)
         IN  IF semantic.raised
                \/ ScanRaises(columns, active_tables, mode, semantic.scores)
             THEN [raised |-> TRUE, best |-> best]
             ELSE ScanKeywords(
                      ScanColumns(best, kw, 1, columns, active_tables, mode,
                                  semantic.scores, fz),
                      Tail(keywords), columns, active_tables, mode, embeddings,
                      fz, cos)

\* an unquoted column reference parses only if the name is a plain identifier
IsPlainIdentifier(name) ==
    /\ name # <<>>
    /\ \A i \in 1..Len(name) : IsWordChar(name[i])
    /\ IsLetterOrUnderscore(name[1])

\* Variant: the sampling query has no LIMIT.
SampleQuery_NoLimit(c, table, col) ==
    IF table \notin DOMAIN c \/ ~IsPlainIdentifier(col)
       \/ ~\E i \in 1..Len(c[table]) : c[table][i].column = col
    THEN [raised |-> TRUE, rows |-> <<>>]
    ELSE LET i == CHOOSE j \in 1..Len(c[table]) : c[table][j].column = col
         IN  [raised |-> FALSE, rows |-> c[table][i].values]

\* engine.execute("SELECT DISTINCT col FROM table WHERE col IS NOT NULL LIMIT 5")
\* followed by df[col].tolist(): the rows, or raised.  The unquoted reference
\* is resolved without regard to case; the data frame names the column as the
\* table does, so df[col] raises KeyError when the two differ in case.
SampleQuery(c, table, col) ==
    IF table \notin DOMAIN c \/ ~IsPlainIdentifier(col)
       \/ ~\E i \in 1..Len(c[table]) : c[table][i].column = col
    THEN [raised |-> TRUE, rows |-> <<>>]
    ELSE LET i == CHOOSE j \in 1..Len(c[table]) : c[table][j].column = col
         IN  [raised |-> FALSE, rows |-> Truncate(c[table][i].values, SampleLimit)]

\* f"{table}.{col}"
HintKey(table, col) == table \o <<".">> \o col

\* value_hints[key] = df[col].tolist(), or [] when the query raised
HintValues(c, table, col) ==
    IF SampleQuery(c, table, col).raised THEN <<>>
    ELSE SampleQuery(c, table, col).rows

RECURSIVE SampleHints(_, _, _)
SampleHints(matches, c, hints) ==
    IF matches = <<>> THEN hints
    ELSE LET m == Head(matches)
         IN  SampleHints(Tail(matches), c,
                         DictSet(hints, HintKey(m.table, m.column),
                                 HintValues(c, m.table, m.column)))

\* Variant: [m["table"] for m in column_matches], duplicates kept.
DedupTables_KeepsDuplicates(matches, acc) ==
    acc \o [i \in 1..Len(matches) |-> matches[i].table]

\* list(dict.fromkeys(m["table"] for m in column_matches))
RECURSIVE DedupTables(_, _)
DedupTables(matches, acc) ==
    IF matches = <<>> THEN acc
    ELSE DedupTables(Tail(matches),
                     IF InSeq(Head(matches).table, acc) THEN acc
                     ELSE Append(acc, Head(matches).table))

\* list(best.values())
DictValues(d) == [i \in 1..Len(d) |-> d[i].value]

\* SemanticResolver.enrich raises: nothing in it catches what the scoring of a
\* keyword raises
EnrichRaises(q, schema, columns, mode, embeddings, fz, cos) ==
    ScanKeywords(<<>>, _extract_keywords(q), columns,
                 {schema[i].key : i \in 1..Len(schema)}, mode, embeddings,
                 fz, cos).raised

\* SemanticResolver.enrich, what it returns when it does not raise
enrich(q, schema, columns, mode, embeddings, fz, cos, c) ==
    LET keywords       == _extract_keywords(q)
        active_tables  == {schema[i].key : i \in 1..Len(schema)}
        best           == ScanKeywords(<<>>, keywords, columns, active_tables,
                                       mode, embeddings, fz, cos).best
        column_matches == DictValues(best)
    IN  [ original_schema |-> schema,
          column_matches  |-> column_matches,
          value_hints     |-> SampleHints(column_matches, c, <<>>),
          relevant_tables |-> DedupTables(column_matches, <<>>) ]

\* sub in name, for two strings
Contains(name, sub) ==
    \E i \in 0..(Len(name) - Len(sub)) :
        \A j \in 1..Len(sub) : name[i + j] = sub[j]

Graybook == <<"g", "r", "a", "y", "b", "o", "o", "k">>

UiucTre == <<"u", "i", "u", "c", "t", "r", "e", "d", "a", "t", "a", "s", "e", "t">>

UiucGpa == <<"u", "i", "u", "c", "g", "p", "a", "d", "a", "t", "a", "s", "e", "t", "1">>

\* the NOTE appended to the block of a table, by the table's name
TableNote(table) ==
    IF Contains(Lower(table), Graybook) THEN "graybook note"
    ELSE IF Contains(Lower(table), UiucTre) THEN "uiuctredataset note"
    ELSE IF Contains(Lower(table), UiucGpa) THEN "uiucgpadataset1 note"
    ELSE ""

\* "### CROSS TABLE JOIN RULES" lines
CrossRules(schema) ==
    LET has(sub) == \E i \in 1..Len(schema) : Contains(Lower(schema[i].key), sub)
    IN  (IF has(Graybook) /\ has(UiucTre) THEN <<"graybook <-> uiuctredataset">> ELSE <<>>)
        \o (IF has(Graybook) /\ has(UiucGpa) THEN <<"graybook <-> uiucgpadataset1">> ELSE <<>>)

\* format_schema_for_prompt(schema): one "Table: t / columns (type)" block per
\* table in dict order, then NORTHWIND_RELATIONSHIPS, then the cross rules
format_schema_for_prompt(schema) ==
    [ blocks        |-> [i \in 1..Len(schema) |->
                            [table   |-> schema[i].key,
                             columns |-> schema[i].value,
                             note    |-> TableNote(schema[i].key)]],
      relationships |-> "NORTHWIND_RELATIONSHIPS",
      cross_rules   |-> CrossRules(schema) ]

\* {t: original_schema[t] for t in relevant_tables if t in original_schema}
RECURSIVE FilterSchema(_, _, _)
FilterSchema(relevant_tables, original_schema, acc) ==
    IF relevant_tables = <<>> THEN acc
    ELSE LET t == Head(relevant_tables)
         IN  FilterSchema(Tail(relevant_tables), original_schema,
                          IF DictHas(original_schema, t)
                          THEN DictSet(acc, t, DictGet(original_schema, t))
                          ELSE acc)

\* if not filtered_schema: filtered_schema = original_schema
FilteredOrFull(filtered_schema, original_schema) ==
    IF filtered_schema = <<>> THEN original_schema ELSE filtered_schema

\* "  'kw' likely refers to table.column", one per match
HintLines(column_matches) ==
    [i \in 1..Len(column_matches) |->
        [keyword |-> column_matches[i].keyword,
         refers  |-> HintKey(column_matches[i].table, column_matches[i].column)]]

\* "  Sample values for key: v1, v2", one per non-empty value list
NonEmptyHint(h) == h.value # <<>>

SampleLines(value_hints) == SelectSeq(value_hints, NonEmptyHint)

\* SemanticResolver.format_enriched_context(enriched), as the parts it joins
format_enriched_context(e, mode) ==
    LET filtered_schema == FilterSchema(e.relevant_tables, e.original_schema, <<>>)
        shown           == FilteredOrFull(filtered_schema, e.original_schema)
    IN  [ mode    |-> mode,
          schema  |-> format_schema_for_prompt(shown),
          hints   |-> IF e.column_matches # <<>>
                      THEN [header  |-> "Semantic Hints:",
                            matches |-> HintLines(e.column_matches),
                            samples |-> SampleLines(e.value_hints)]
                      ELSE [header |-> "", matches |-> <<>>, samples |-> <<>>] ]

NoEnriched == [pending |-> TRUE]

NoContext == [pending |-> TRUE]

\* SemanticResolver.__init__ after DuckDBEngine.__init__
ResolverInit ==
    /\ \E dir \in InitialDirs :
          /\ _tables = LoadDir(dir, <<>>, <<>>).tables
          /\ conn = LoadDir(dir, <<>>, <<>>).conn
          /\ data_dir = DirFiles(dir)
    /\ _schema = get_schema(_tables, conn)
    /\ _all_columns = FlattenSchema(_schema)
    /\ \E sim \in FuzzyModeTables \cup HybridModeTables :
          /\ _mode = sim.mode
          /\ partial_ratio = sim.fz
          /\ cosine = sim.cos
    /\ _column_embeddings =
           IF _mode = "hybrid" THEN EncodeColumns(_all_columns) ELSE <<>>
    /\ resolver_pc = "idle"
    /\ enrich_question = <<>>
    /\ enrich_schema = <<>>
    /\ enriched = NoEnriched

(***************************************************************************)
(* upload_csv and delete_table step by step.  A handler runs on the event  *)
(* loop up to its next await; what it awaits (a call handed to             *)
(* asyncio.to_thread) runs in a worker thread at some later point, and the *)
(* handler resumes at some point after that.  Other handlers and other     *)
(* workers run in between.                                                 *)
(***************************************************************************)
RequestIds == {1, 2}

NoFile == [stem |-> <<>>, readable |-> FALSE, content |-> <<>>]

\* a request: where its handler is suspended (pc), what became of the call
\* it awaits (thread: "running", "returned", "raised"), and the handler's
\* locals
NoRequest ==
    [ pc |-> "idle", thread |-> "none", table_name |-> <<>>, file |-> NoFile,
      schema |-> <<>>, next |-> 0, table |-> <<>>, samples |-> <<>>,
      columns |-> <<>>, before |-> <<>> ]

\* the shared state a request found when it arrived (kept for comparison,
\* read by no step)
SharedState ==
    [ tables |-> _tables, dataset |-> DOMAIN conn, schema |-> _schema,
      columns |-> _all_columns, embeddings |-> _column_embeddings ]

\* the handler of request r is between its first step and its response
InProgress(r) == requests[r].pc \notin {"idle", "done", "failed"}

NoRequests == [r \in RequestIds |-> NoRequest]

request_frame ==
    <<critic_vars, pipeline_vars, util_vars, schema_reads, critic_runs, history_of,
      _mode, partial_ratio, cosine, resolver_pc, enrich_question, enrich_schema,
      enriched, enrich_call>>

\* the handler awaits the next call
Awaits(req, pc) == [req EXCEPT !.pc = pc, !.thread = "running"]

\* a handler is in the middle of a stretch of code that touches the shared
\* state more than once: it holds the event loop, so no other handler and no
\* generator runs before it reaches its await; the worker threads do run
LoopHeld(r) == requests[r].pc \in {"open", "write", "write_rest", "delete_unlink"}

LoopFree == \A r \in DOMAIN requests : ~LoopHeld(r)

\* a file of zero bytes
TruncatedFile == [stem |-> <<>>, readable |-> TRUE, content |-> <<>>]

\* open(file_path, "wb"): the file is created, or cut to zero bytes
OpenFile(dir, t) ==
    [u \in DOMAIN dir \cup {t} |-> IF u = t THEN TruncatedFile ELSE dir[u]]

\* the file at data/<t>.csv holds the given content
WriteFile(dir, t, file) ==
    [u \in DOMAIN dir \cup {t} |-> IF u = t THEN file ELSE dir[u]]

\* shutil.copyfileobj(file.file, buffer) copies the upload piece by piece: the
\* file before the last piece is written, here without the last row
PartialFile(file) ==
    [file EXCEPT !.content =
        [i \in 1..Len(file.content) |->
            [file.content[i] EXCEPT !.values = SubSeq(@, 1, Len(@) - 1)]]]

\* if file_path.exists(): file_path.unlink()
Unlink(dir, t) == [u \in DOMAIN dir \ {t} |-> dir[u]]

\* DROP TABLE
DropTable(c, t) == [u \in DOMAIN c \ {t} |-> c[u]]

\* upload_csv from its entry: the name is derived; the DROP of an existing
\* table of that name is awaited, otherwise the handler goes on to write the
\* file
UploadBegin(r, file) ==
    /\ requests[r].pc = "idle"
    /\ LoopFree
    /\ LET table_name == sanitize_identifier(file.stem)
           req == [NoRequest EXCEPT !.table_name = table_name, !.file = file,
                                    !.before = SharedState]
       IN  requests' = [requests EXCEPT ![r] =
               IF InSeq(table_name, _tables) THEN Awaits(req, "drop")
               ELSE [req EXCEPT !.pc = "open"]]
    /\ UNCHANGED <<_tables, conn, data_dir, _schema, _all_columns, _column_embeddings>>
    /\ UNCHANGED request_frame

\* the worker thread runs DROP TABLE "table_name": it raises when the table
\* is not there
UploadDropRuns(r) ==
    /\ requests[r].pc = "drop"
    /\ requests[r].thread = "running"
    /\ LET t == requests[r].table_name
       IN  IF t \in DOMAIN conn
           THEN /\ conn' = DropTable(conn, t)
                /\ requests' = [requests EXCEPT ![r].thread = "returned"]
           ELSE /\ conn' = conn
                /\ requests' = [requests EXCEPT ![r].thread = "raised"]
    /\ UNCHANGED <<_tables, data_dir, _schema, _all_columns, _column_embeddings>>
    /\ UNCHANGED request_frame

\* _tables.remove(table_name) inside try/except Exception: pass: the first
\* occurrence goes; when there is none the ValueError is swallowed
RegistryAfterDrop(tables, t) ==
    IF InSeq(t, tables) THEN ListRemove(tables, t) ELSE tables

\* _tables.append(table_name)
RegistryAfterCreate(tables, t) == Append(tables, t)

\* the handler resumes after the DROP: the name leaves the registry when the
\* statement succeeded, and the handler goes on to write the file
UploadAfterDrop(r) ==
    /\ requests[r].pc = "drop"
    /\ requests[r].thread \in {"returned", "raised"}
    /\ LoopFree
    /\ _tables' = IF requests[r].thread = "returned"
                  THEN RegistryAfterDrop(_tables, requests[r].table_name)
                  ELSE _tables
    /\ requests' = [requests EXCEPT ![r].pc = "open", ![r].thread = "none"]
    /\ UNCHANGED <<conn, data_dir, _schema, _all_columns, _column_embeddings>>
    /\ UNCHANGED request_frame

\* with open(file_path, "wb") as buffer: the file at data/<table_name>.csv is
\* created or cut to zero bytes
UploadOpens(r) ==
    /\ requests[r].pc = "open"
    /\ data_dir' = OpenFile(data_dir, requests[r].table_name)
    /\ requests' = [requests EXCEPT ![r].pc = "write"]
    /\ UNCHANGED <<_tables, conn, _schema, _all_columns, _column_embeddings>>
    /\ UNCHANGED request_frame

\* shutil.copyfileobj(file.file, buffer): the first pieces of the upload are
\* in the file
UploadWrites(r) ==
    /\ requests[r].pc = "write"
    /\ data_dir' = WriteFile(data_dir, requests[r].table_name,
                             PartialFile(requests[r].file))
    /\ requests' = [requests EXCEPT ![r].pc = "write_rest"]
    /\ UNCHANGED <<_tables, conn, _schema, _all_columns, _column_embeddings>>
    /\ UNCHANGED request_frame

\* the last piece is written, the file is closed and the load is awaited
UploadCloses(r) ==
    /\ requests[r].pc = "write_rest"
    /\ data_dir' = WriteFile(data_dir, requests[r].table_name, requests[r].file)
    /\ requests' = [requests EXCEPT ![r] = Awaits(@, "create")]
    /\ UNCHANGED <<_tables, conn, _schema, _all_columns, _column_embeddings>>
    /\ UNCHANGED request_frame

\* read_csv_auto(..., normalize_names=True) on one column name: characters
\* other than letters, digits, "_" and blanks go, the rest is trimmed, each
\* run of blanks becomes one "_" and letters lower case; a name left empty or
\* starting with a digit gets a leading "_"
NormalizeName(name) ==
    LET Kept(c) == IsWordChar(c) \/ c = " "
        kept    == SelectSeq(name, Kept)
        first   == IF \E i \in 1..Len(kept) : kept[i] # " "
                   THEN CHOOSE i \in 1..Len(kept) :
                            kept[i] # " " /\ \A j \in 1..(i - 1) : kept[j] = " "
                   ELSE 1
        last    == IF \E i \in 1..Len(kept) : kept[i] # " "
                   THEN CHOOSE i \in 1..Len(kept) :
                            kept[i] # " " /\ \A j \in (i + 1)..Len(kept) : kept[j] = " "
                   ELSE 0
        trimmed == SubSeq(kept, first, last)
        runs    == { i \in 1..Len(trimmed) :
                       ~(trimmed[i] = " " /\ i > 1 /\ trimmed[i - 1] = " ") }
        Nth(k)  == CHOOSE i \in runs : Cardinality({j \in runs : j <= i}) = k
        joined  == [k \in 1..Cardinality(runs) |->
                       IF trimmed[Nth(k)] = " " THEN "_"
                       ELSE LowerChar(trimmed[Nth(k)])]
    IN  IF joined = <<>> \/ joined[1] \in Digits THEN <<"_">> \o joined ELSE joined

\* the table read_csv_auto(path, normalize_names=True) makes of a file
NormalizedContent(content) ==
    [i \in 1..Len(content) |->
        [content[i] EXCEPT !.column = NormalizeName(content[i].column)]]

\* what read_csv_auto makes of a file of zero bytes, when it does not reject
\* it: one VARCHAR column named column0 and no row
EmptyFileTable ==
    << [column |-> <<"c", "o", "l", "u", "m", "n", "0">>, type |-> "VARCHAR",
        values |-> <<>>] >>

\* a handler is in the middle of copying an upload to data/<t>.csv
BeingWritten(t) ==
    \E r \in DOMAIN requests :
        requests[r].pc = "write_rest" /\ requests[r].table_name = t

\* the outcomes of read_csv_auto on the file as it is on disk: the table it
\* loads as, or "raised".  A file another handler has opened for writing is
\* read as it is now: with zero bytes the reader either rejects it or returns
\* the table of an empty file; partly written (cut) it loads with the rows
\* that are there, or it is rejected for its last line
ReadCsvOutcomes(file, cut) ==
    IF ~file.readable THEN {[raised |-> TRUE, table |-> <<>>]}
    ELSE IF file = TruncatedFile
    THEN {[raised |-> TRUE, table |-> <<>>],
          [raised |-> FALSE, table |-> EmptyFileTable]}
    ELSE {[raised |-> FALSE, table |-> NormalizedContent(file.content)]}
         \cup (IF cut THEN {[raised |-> TRUE, table |-> <<>>]} ELSE {})

\* the worker thread runs CREATE TABLE "table_name" AS SELECT * FROM
\* read_csv_auto('data/<table_name>.csv', normalize_names=True): it loads the
\* file that is at that path now, and raises when the table exists, when
\* there is no file or when the file does not load
UploadCreateRuns(r) ==
    /\ requests[r].pc = "create"
    /\ requests[r].thread = "running"
    /\ LET t == requests[r].table_name
       IN  IF t \in DOMAIN conn \/ t \notin DOMAIN data_dir
           THEN /\ conn' = conn
                /\ requests' = [requests EXCEPT ![r].thread = "raised"]
           ELSE \E loaded \in ReadCsvOutcomes(data_dir[t], BeingWritten(t)) :
                   IF loaded.raised
                   THEN /\ conn' = conn
                        /\ requests' = [requests EXCEPT ![r].thread = "raised"]
                   ELSE /\ conn' = [u \in DOMAIN conn \cup {t} |->
                                       IF u = t THEN loaded.table ELSE conn[u]]
                        /\ requests' = [requests EXCEPT ![r].thread = "returned"]
    /\ UNCHANGED <<_tables, data_dir, _schema, _all_columns, _column_embeddings>>
    /\ UNCHANGED request_frame

\* except Exception: the file is removed when it is there, and HTTP 500
UploadFails(r) ==
    /\ requests' = [requests EXCEPT ![r].pc = "failed", ![r].thread = "none"]
    /\ data_dir' = Unlink(data_dir, requests[r].table_name)

\* the handler resumes after the load: HTTP 500 when it raised, else the name
\* is appended to the registry and the row count is awaited
UploadAfterCreate(r) ==
    /\ requests[r].pc = "create"
    /\ requests[r].thread \in {"returned", "raised"}
    /\ LoopFree
    /\ IF requests[r].thread = "returned"
       THEN /\ _tables' = RegistryAfterCreate(_tables, requests[r].table_name)
            /\ requests' = [requests EXCEPT ![r] = Awaits(@, "count")]
            /\ data_dir' = data_dir
       ELSE /\ _tables' = _tables
            /\ UploadFails(r)
    /\ UNCHANGED <<conn, _schema, _all_columns, _column_embeddings>>
    /\ UNCHANGED request_frame

\* the worker thread runs SELECT COUNT(*) FROM "table_name": it raises when
\* the table is gone
UploadCountRuns(r) ==
    /\ requests[r].pc = "count"
    /\ requests[r].thread = "running"
    /\ requests' = [requests EXCEPT ![r].thread =
                       IF requests[r].table_name \in DOMAIN conn
                       THEN "returned" ELSE "raised"]
    /\ UNCHANGED <<_tables, conn, data_dir, _schema, _all_columns, _column_embeddings>>
    /\ UNCHANGED request_frame

\* the handler resumes after the count: HTTP 500 when it raised, else
\* engine.get_schema is awaited
UploadAfterCount(r) ==
    /\ requests[r].pc = "count"
    /\ requests[r].thread \in {"returned", "raised"}
    /\ LoopFree
    /\ IF requests[r].thread = "returned"
       THEN /\ requests' = [requests EXCEPT ![r] =
                               Awaits([@ EXCEPT !.schema = <<>>, !.next = 0, !.table = <<>>],
                                      "get_schema")]
            /\ data_dir' = data_dir
       ELSE UploadFails(r)
    /\ UNCHANGED <<_tables, conn, _schema, _all_columns, _column_embeddings>>
    /\ UNCHANGED request_frame

\* engine.get_schema, one step of "for table in self._tables" on a record of
\* the loop (next, table, rows).  With no table at hand the list iterator
\* yields the element at its position in the list as it is now, or the loop
\* is over when the position is past the end; with a table at hand the table
\* is described as the dataset is now (the DESCRIBE of a table that is gone
\* raises) and its columns are added to the schema
SchemaTurn(read) ==
    IF read.table = <<>>
    THEN IF read.next >= Len(_tables) THEN [read EXCEPT !.thread = "returned"]
         ELSE [read EXCEPT !.table = _tables[read.next + 1], !.next = @ + 1]
    ELSE IF read.table \notin DOMAIN conn
    THEN [read EXCEPT !.thread = "raised"]
    ELSE [read EXCEPT !.table = <<>>,
                      !.rows = DictSet(@, read.table, Describe(conn, read.table))]

\* the worker thread of the upload runs engine.get_schema, one step of its
\* loop per step
UploadSchemaRuns(r) ==
    /\ requests[r].pc = "get_schema"
    /\ requests[r].thread = "running"
    /\ LET turn == SchemaTurn([ thread |-> "running",
                                next   |-> requests[r].next,
                                table  |-> requests[r].table,
                                rows   |-> requests[r].schema ])
       IN  requests' = [requests EXCEPT ![r].thread = turn.thread,
                                        ![r].next = turn.next,
                                        ![r].table = turn.table,
                                        ![r].schema = turn.rows]
    /\ UNCHANGED <<_tables, conn, data_dir, _schema, _all_columns, _column_embeddings>>
    /\ UNCHANGED request_frame

\* refresh_schema after the samples: self._all_columns is built from
\* self._schema as it is now; with an embedder the column names are taken
\* from it and their encoding is awaited, else refresh_schema and upload_csv
\* return
ColumnsAssigned(r, schema) ==
    /\ _all_columns' = FlattenSchema(schema)
    /\ requests' = [requests EXCEPT ![r] =
           IF _mode = "hybrid"
           THEN Awaits([@ EXCEPT !.columns = FlattenSchema(schema)], "encode")
           ELSE [@ EXCEPT !.pc = "done", !.thread = "none"]]

\* the handler resumes after get_schema: HTTP 500 when it raised, else
\* resolver.refresh_schema(schema) is entered: self._schema is assigned and
\* the sample of the schema's first table is awaited (with an empty schema
\* there is nothing to await)
RefreshAssignSchema(r) ==
    /\ requests[r].pc = "get_schema"
    /\ requests[r].thread \in {"returned", "raised"}
    /\ LoopFree
    /\ IF requests[r].thread = "raised"
       THEN /\ UploadFails(r)
            /\ UNCHANGED <<_schema, _all_columns>>
       ELSE /\ _schema' = requests[r].schema
            /\ data_dir' = data_dir
            /\ IF requests[r].schema = <<>>
               THEN ColumnsAssigned(r, requests[r].schema)
               ELSE /\ requests' = [requests EXCEPT ![r] =
                           Awaits([@ EXCEPT !.samples = DictKeys(requests[r].schema)],
                                  "sample")]
                    /\ _all_columns' = _all_columns
    /\ UNCHANGED <<_tables, conn, _column_embeddings>>
    /\ UNCHANGED request_frame

\* the worker thread runs engine.get_table_sample(table): it raises when the
\* table is gone
RefreshSampleRuns(r) ==
    /\ requests[r].pc = "sample"
    /\ requests[r].thread = "running"
    /\ requests' = [requests EXCEPT ![r].thread =
                       IF Head(requests[r].samples) \in DOMAIN conn
                       THEN "returned" ELSE "raised"]
    /\ UNCHANGED <<_tables, conn, data_dir, _schema, _all_columns, _column_embeddings>>
    /\ UNCHANGED request_frame

\* the handler resumes after a sample: HTTP 500 when it raised (the
\* exception leaves refresh_schema); else the next table's sample is
\* awaited, or after the last one the columns are assigned
RefreshAssignColumns(r) ==
    /\ requests[r].pc = "sample"
    /\ requests[r].thread \in {"returned", "raised"}
    /\ LoopFree
    /\ IF requests[r].thread = "raised"
       THEN /\ UploadFails(r)
            /\ _all_columns' = _all_columns
       ELSE /\ data_dir' = data_dir
            /\ IF Len(requests[r].samples) > 1
               THEN /\ requests' = [requests EXCEPT ![r] =
                           Awaits([@ EXCEPT !.samples = Tail(requests[r].samples)],
                                  "sample")]
                    /\ _all_columns' = _all_columns
               ELSE ColumnsAssigned(r, _schema)
    /\ UNCHANGED <<_tables, conn, _schema, _column_embeddings>>
    /\ UNCHANGED request_frame

\* the worker thread runs self._embedder.encode(column_names)
RefreshEncodeRuns(r) ==
    /\ requests[r].pc = "encode"
    /\ requests[r].thread = "running"
    /\ requests' = [requests EXCEPT ![r].thread = "returned"]
    /\ UNCHANGED <<_tables, conn, data_dir, _schema, _all_columns, _column_embeddings>>
    /\ UNCHANGED request_frame

\* the handler resumes after the encoding: self._column_embeddings is
\* assigned the encoding of the names taken before the await, and upload_csv
\* returns
RefreshAssignEmbeddings(r) ==
    /\ requests[r].pc = "encode"
    /\ requests[r].thread = "returned"
    /\ LoopFree
    /\ _column_embeddings' = EncodeColumns(requests[r].columns)
    /\ requests' = [requests EXCEPT ![r].pc = "done", ![r].thread = "none"]
    /\ UNCHANGED <<_tables, conn, data_dir, _schema, _all_columns>>
    /\ UNCHANGED request_frame

\* delete_table up to its await
DeleteBegin(r, name) ==
    /\ requests[r].pc = "idle"
    /\ LoopFree
    /\ requests' = [requests EXCEPT ![r] =
           Awaits([NoRequest EXCEPT !.table_name = sanitize_identifier(name)],
                  "delete_drop")]
    /\ UNCHANGED <<_tables, conn, data_dir, _schema, _all_columns, _column_embeddings>>
    /\ UNCHANGED request_frame

\* the worker thread runs DROP TABLE IF EXISTS "table_name"
DeleteDropRuns(r) ==
    /\ requests[r].pc = "delete_drop"
    /\ requests[r].thread = "running"
    /\ conn' = DropTable(conn, requests[r].table_name)
    /\ requests' = [requests EXCEPT ![r].thread = "returned"]
    /\ UNCHANGED <<_tables, data_dir, _schema, _all_columns, _column_embeddings>>
    /\ UNCHANGED request_frame

\* the handler resumes: if table_name in _tables: _tables.remove(table_name)
DeleteAfterDrop(r) ==
    /\ requests[r].pc = "delete_drop"
    /\ requests[r].thread = "returned"
    /\ LoopFree
    /\ _tables' = IF InSeq(requests[r].table_name, _tables)
                  THEN ListRemove(_tables, requests[r].table_name) ELSE _tables
    /\ requests' = [requests EXCEPT ![r].pc = "delete_unlink", ![r].thread = "none"]
    /\ UNCHANGED <<conn, data_dir, _schema, _all_columns, _column_embeddings>>
    /\ UNCHANGED request_frame

\* if file_path.exists(): file_path.unlink(), and the response
DeleteUnlinks(r) ==
    /\ requests[r].pc = "delete_unlink"
    /\ data_dir' = Unlink(data_dir, requests[r].table_name)
    /\ requests' = [requests EXCEPT ![r].pc = "done"]
    /\ UNCHANGED <<_tables, conn, _schema, _all_columns, _column_embeddings>>
    /\ UNCHANGED request_frame

\* schema = engine.get_schema(), then resolver.enrich(question, schema), as
\* Orchestrator.run and the resolver test call it, with nothing else running:
\* the call returns its result or raises
Enrich(q) ==
    /\ resolver_pc = "idle"
    /\ LET schema == get_schema(_tables, conn)
       IN  /\ enrich_question' = q
           /\ enrich_schema' = schema
           /\ IF EnrichRaises(q, schema, _all_columns, _mode, _column_embeddings,
                              partial_ratio, cosine)
              THEN /\ enriched' = NoEnriched
                   /\ resolver_pc' = "raised"
              ELSE /\ enriched' = enrich(q, schema, _all_columns, _mode,
                                         _column_embeddings, partial_ratio,
                                         cosine, conn)
                   /\ resolver_pc' = "enriched"
    /\ UNCHANGED <<engine_vars, _schema, _all_columns, _mode, _column_embeddings,
                   partial_ratio, cosine, critic_vars, pipeline_vars>>
    /\ UNCHANGED extra_vars

\* context = resolver.format_enriched_context(enriched), on the result of a
\* call that returned
FormatContext ==
    /\ resolver_pc = "enriched"
    /\ context = NoContext
    /\ context' = format_enriched_context(enriched, _mode)
    /\ UNCHANGED <<engine_vars, resolver_vars, critic_vars>>
    /\ UNCHANGED <<run_pc, request_question, chat_history, selectedTables, events,
                   calls, run_result, stream_read>>
    /\ UNCHANGED extra_vars

\* requests that come one at a time
SequentialIds == {1}

\* the response has been sent: the next request may arrive
RequestReturns(r) ==
    /\ requests[r].pc \in {"done", "failed"}
    /\ requests' = [requests EXCEPT ![r] = NoRequest]
    /\ UNCHANGED <<_tables, conn, data_dir, _schema, _all_columns, _column_embeddings>>
    /\ UNCHANGED request_frame

\* ResolverSpec: one question put to the resolver of a freshly loaded engine
ResolverNext ==
    \/ \E q \in ResolverQuestions : Enrich(q)
    \/ FormatContext

\* SequentialSpec: upload and drop requests one after the other, each arriving
\* when the one before has returned
SequentialNext ==
    \/ \E r \in SequentialIds, file \in UploadFiles : UploadBegin(r, file)
    \/ \E r \in SequentialIds : UploadDropRuns(r)
    \/ \E r \in SequentialIds : UploadAfterDrop(r)
    \/ \E r \in SequentialIds : UploadOpens(r)
    \/ \E r \in SequentialIds : UploadWrites(r)
    \/ \E r \in SequentialIds : UploadCloses(r)
    \/ \E r \in SequentialIds : UploadCreateRuns(r)
    \/ \E r \in SequentialIds : UploadAfterCreate(r)
    \/ \E r \in SequentialIds : UploadCountRuns(r)
    \/ \E r \in SequentialIds : UploadAfterCount(r)
    \/ \E r \in SequentialIds : UploadSchemaRuns(r)
    \/ \E r \in SequentialIds : RefreshAssignSchema(r)
    \/ \E r \in SequentialIds : RefreshSampleRuns(r)
    \/ \E r \in SequentialIds : RefreshAssignColumns(r)
    \/ \E r \in SequentialIds : RefreshEncodeRuns(r)
    \/ \E r \in SequentialIds : RefreshAssignEmbeddings(r)
    \/ \E r \in SequentialIds, name \in TableNames : DeleteBegin(r, name)
    \/ \E r \in SequentialIds : DeleteDropRuns(r)
    \/ \E r \in SequentialIds : DeleteAfterDrop(r)
    \/ \E r \in SequentialIds : DeleteUnlinks(r)
    \/ \E r \in SequentialIds : RequestReturns(r)

\* the critic at rest, for the runs that exercise the resolver
CriticIdle ==
    /\ max_retries = 0
    /\ question = "q"
    /\ critic_pc = "idle"
    /\ attempt = 0
    /\ current_sql = <<>>
    /\ history = <<>>
    /\ result = NoResult
    /\ executions = <<>>
    /\ corrections = <<>>
    /\ generation_failed = FALSE

\* the engine and the resolver at rest, for the runs that exercise the critic
ResolverIdle ==
    /\ _tables = <<>>
    /\ conn = <<>>
    /\ data_dir = <<>>
    /\ _schema = <<>>
    /\ _all_columns = <<>>
    /\ _mode = "fuzzy"
    /\ _column_embeddings = <<>>
    /\ partial_ratio = <<>>
    /\ cosine = <<>>
    /\ resolver_pc = "idle"
    /\ enrich_question = <<>>
    /\ enrich_schema = <<>>
    /\ enriched = NoEnriched

\* no call of the stream in a worker thread.  Of a call: what became of it
\* (thread: "running", "returned", "raised"), the position of its loop, the
\* table its loop is at, the rows collected so far, the value returned and
\* the answer of the gate
NoRead ==
    [ thread |-> "none", next |-> 0, table |-> <<>>, rows |-> <<>>,
      value |-> <<>>, answer |-> FALSE ]

\* await asyncio.to_thread(...): the call is handed to a worker thread
Handed == [NoRead EXCEPT !.thread = "running"]

\* no enrich call in a worker thread.  Of a call: its position, its
\* arguments, and its locals: the keywords left, the embeddings read for the
\* keyword at hand, best, the hints sampled so far, and what it read for
\* each keyword
NoEnrichCall ==
    [ pc |-> "idle", question |-> <<>>, schema |-> <<>>, keywords |-> <<>>,
      embeddings |-> <<>>, best |-> <<>>, hints |-> <<>>, next |-> 0,
      reads |-> <<>> ]

\* no pipeline run, for the runs that exercise the critic or the resolver alone

PipelineIdle ==
    /\ run_pc = "idle"
    /\ stream_read = NoRead
    /\ request_question = <<>>
    /\ chat_history = <<>>
    /\ selectedTables = <<>>
    /\ events = <<>>
    /\ calls = <<>>
    /\ context = NoContext
    /\ run_result = NoResult

(***************************************************************************)
(* The pipeline: Orchestrator.run and the streaming query of routes.py.    *)
(***************************************************************************)
\* CriticAgent(engine): max_retries: int = 3
DefaultMaxRetries == 3

\* fuzz.partial_ratio(word, table) >= 70
RelevanceThreshold == 70

\* fuzz.ratio(...) >= 85
RelationshipThreshold == 85

\* count <= 50
CategoricalLimit == 50

\* the most chunks a summary stream delivers
MaxChunks == 2

FileK ==
    [ stem     |-> <<"b", "_", "K">>,
      readable |-> TRUE,
      content  |-> << [column |-> <<"x">>, type |-> "VARCHAR",
                       values |-> <<"u", "w">>] >> ]

\* what the data directory may hold when the orchestrator is constructed, in
\* the order Path.glob lists it
PipelineDirs == { <<>>, <<FileA>>, <<FileA, FileK>>, <<FileK, FileA>> }

PipelineTableNames == { <<"a">>, <<"b", "_", "k">> }

\* questions of the pipeline runs: a word that is a table name, words that are
\* fragments of one or of none, and a question without any word
PipelineQuestions ==
    { <<"a">>, <<"K">>, <<"K", " ", "a">>, <<"?">> }

PipelineWords == { <<"a">>, <<"k">> }

\* what the engine and the text-generation capability answer during the
\* critic stage of a pipeline run
PipelineErrorMessages == {"SQL execution failed: e1"}

PipelineCorrections == { <<"fence", "sql", "nl", "select", "nl", "fence">> }

\* request.chat_history
ChatHistories == { <<>>, <<"turn">> }

\* request.selectedTables
SelectedTableLists ==
    { <<>>, << <<"a">> >>, << <<"b", "_", "k">> >>,
      << <<"b", "_", "k">>, <<"a">> >> }

\* lower-cased column names of the files above once uploaded
NormalizedColumnNames == {<<"x">>, <<"y", "_", "z">>}

\* fuzz.partial_ratio on the pairs the pipeline scores: a level table for the
\* (keyword, column) pairs of enrich, and per word one score against the
\* table names
PipelineRatioTables ==
    { [p \in ScorePairs \cup (Keywords \X NormalizedColumnNames)
                \cup (PipelineWords \X PipelineTableNames) |->
          IF p[2] \in PipelineTableNames THEN w[p[1]] ELSE v] :
        v \in {fuzzy_threshold - 1, fuzzy_threshold},
        w \in [PipelineWords -> {RelevanceThreshold - 1, RelevanceThreshold}] }

IsNonEmpty(t) == t # <<>>

\* name.split("_"), as the set of its pieces
RECURSIVE SplitUnderscore(_, _)
SplitUnderscore(name, cur) ==
    IF name = <<>> THEN {cur}
    ELSE IF Head(name) = "_"
         THEN {cur} \cup SplitUnderscore(Tail(name), <<>>)
         ELSE SplitUnderscore(Tail(name), Append(cur, Head(name)))

\* dynamic_keywords: the pieces of every column name and of every table name
dynamic_keywords(schema) ==
    UNION { UNION { SplitUnderscore(Lower(schema[i].value[j].column), <<>>) :
                      j \in 1..Len(schema[i].value) } : i \in 1..Len(schema) }
    \cup UNION { SplitUnderscore(Lower(schema[i].key), <<>>) : i \in 1..Len(schema) }

\* Variant: the table names must score strictly above the threshold.
FuzzyMatchesTable_Strict(word, table_names, ratio) ==
    \E i \in 1..Len(table_names) : ratio[<<word, table_names[i]>>] > RelevanceThreshold

\* for table in table_names: if fuzz.partial_ratio(word, table) >= 70
FuzzyMatchesTable(word, table_names, ratio) ==
    \E i \in 1..Len(table_names) : ratio[<<word, table_names[i]>>] >= RelevanceThreshold

\* the loop over words: the first word that is a dynamic keyword or matches a
\* table name returns True
RECURSIVE ScanWords(_, _, _, _)
ScanWords(words, keywords, table_names, ratio) ==
    IF words = <<>> THEN FALSE
    ELSE IF Head(words) \in keywords THEN TRUE
    ELSE IF FuzzyMatchesTable(Head(words), table_names, ratio) THEN TRUE
    ELSE ScanWords(Tail(words), keywords, table_names, ratio)

\* Orchestrator._is_database_question(question) on the engine's schema
_is_database_question(q, schema, ratio) ==
    LET words == SelectSeq(SplitWords(Lower(q), <<>>, FALSE), IsNonEmpty)
    IN  ScanWords(words, dynamic_keywords(schema), DictKeys(schema), ratio)

\* fuzz.ratio of two column names of the model: the names share no character
\* unless they are equal
fuzz_ratio(a, b) == IF a = b THEN 100 ELSE 0

RECURSIVE Concat(_)
Concat(seqs) == IF seqs = <<>> THEN <<>> ELSE Head(seqs) \o Concat(Tail(seqs))

\* DuckDBEngine.detect_relationships: "t1.c1 <-> t2.c2" for every pair of
\* columns of two different tables whose names are alike
detect_relationships(schema) ==
    LET Pair(i, j, k, l) ==
            IF fuzz_ratio(Lower(schema[i].value[k].column),
                          Lower(schema[j].value[l].column)) >= RelationshipThreshold
            THEN << [left  |-> HintKey(schema[i].key, schema[i].value[k].column),
                     right |-> HintKey(schema[j].key, schema[j].value[l].column)] >>
            ELSE <<>>
        Cols(i, j, k) == Concat([l \in 1..Len(schema[j].value) |-> Pair(i, j, k, l)])
        Tabs(i, j)    == Concat([k \in 1..Len(schema[i].value) |-> Cols(i, j, k)])
        From(i)       == Concat([d \in 1..(Len(schema) - i) |-> Tabs(i, i + d)])
    IN  Concat([i \in 1..Len(schema) |-> From(i)])

IsTextType(type) == type \in {"VARCHAR", "TEXT", "STRING"}

\* the distinct non-null values of a column of the dataset
ColumnValues(c, table, col) ==
    LET i == CHOOSE j \in 1..Len(c[table]) : c[table][j].column = col
    IN  c[table][i].values

\* DuckDBEngine.get_categorical_values: the values of every text column with
\* 1 to 50 distinct values; a column whose query fails is skipped
get_categorical_values(schema, c) ==
    LET Entry(i, k) ==
            LET table == schema[i].key
                col   == schema[i].value[k].column
            IN  IF /\ IsTextType(schema[i].value[k].type)
                   /\ table \in DOMAIN c
                   /\ \E j \in 1..Len(c[table]) : c[table][j].column = col
                   /\ Len(ColumnValues(c, table, col)) > 0
                   /\ Len(ColumnValues(c, table, col)) <= CategoricalLimit
                THEN << [key |-> HintKey(table, col),
                         value |-> ColumnValues(c, table, col)] >>
                ELSE <<>>
        OfTable(i) == Concat([k \in 1..Len(schema[i].value) |-> Entry(i, k)])
    IN  Concat([i \in 1..Len(schema) |-> OfTable(i)])

\* the context Orchestrator.run hands to the generator
RunContext(e, mode, schema, c) ==
    [ enriched      |-> format_enriched_context(e, mode),
      relationships |-> detect_relationships(schema),
      categoricals  |-> get_categorical_values(schema, c) ]

\* make_event(type, **kwargs): content names the message, detail carries
\* the values put into it
make_event(type, content, detail) ==
    [type |-> type, content |-> content, detail |-> detail]

\* df.to_dict(orient="records") of the frames the engine may return
Records(data) == IF data = "df1" THEN <<"r1">> ELSE <<"r1", "r2">>

\* the four error messages of the stream
RejectionMessage == "I can only answer questions about your database."

NoTablesMessage == "No tables found in the database."

\* Variant: the gate is counted as an attempt.
RejectedResult_CountsAttempt(schema) ==
    [ success  |-> FALSE,
      error    |-> [text |-> RejectionMessage,
                    table_examples |-> Truncate(DictKeys(schema), 3)],
      attempts |-> 1 ]

\* the rejection Orchestrator.run returns
RejectedResult(schema) ==
    [ success  |-> FALSE,
      error    |-> [text |-> RejectionMessage,
                    table_examples |-> Truncate(DictKeys(schema), 3)],
      attempts |-> 0 ]

\* result["question"] = ...; result["relevant_tables"] = ...; result["column_matches"] = ...
PipelineResult(r, q, e) ==
    [f \in DOMAIN r \cup {"question", "relevant_tables", "column_matches"} |->
        IF f = "question" THEN q
        ELSE IF f = "relevant_tables" THEN e.relevant_tables
        ELSE IF f = "column_matches" THEN e.column_matches
        ELSE r[f]]

\* the orchestrator after construction: engine, resolver and critic built,
\* no run in progress
PipelineInit ==
    /\ \E dir \in PipelineDirs :
          /\ _tables = LoadDir(dir, <<>>, <<>>).tables
          /\ conn = LoadDir(dir, <<>>, <<>>).conn
          /\ data_dir = DirFiles(dir)
    /\ _schema = get_schema(_tables, conn)
    /\ _all_columns = FlattenSchema(_schema)
    /\ _mode = "fuzzy"
    /\ partial_ratio \in PipelineRatioTables
    /\ cosine = <<>>
    /\ _column_embeddings = <<>>
    /\ resolver_pc = "idle"
    /\ enrich_question = <<>>
    /\ enrich_schema = <<>>
    /\ enriched = NoEnriched
    /\ max_retries = DefaultMaxRetries
    /\ question = <<>>
    /\ critic_pc = "idle"
    /\ attempt = 0
    /\ current_sql = <<>>
    /\ history = <<>>
    /\ result = NoResult
    /\ executions = <<>>
    /\ corrections = <<>>
    /\ generation_failed = FALSE
    /\ PipelineIdle

\* critic.execute_with_retry(sql, question, schema) is entered
CallCritic(sql, q) ==
    /\ critic_pc' = "called"
    /\ current_sql' = sql
    /\ question' = q
    /\ attempt' = 0
    /\ history' = <<>>
    /\ result' = NoResult
    /\ executions' = <<>>
    /\ corrections' = <<>>
    /\ generation_failed' = FALSE
    /\ UNCHANGED max_retries

\* resolver.enrich(question, schema) is called and returns its result
CallEnrich(q, schema) ==
    /\ enrich_question' = q
    /\ enrich_schema' = schema
    /\ enriched' = enrich(q, schema, _all_columns, _mode, _column_embeddings,
                          partial_ratio, cosine, conn)
    /\ resolver_pc' = "enriched"
    /\ UNCHANGED <<_schema, _all_columns, _mode, _column_embeddings,
                   partial_ratio, cosine>>

\* what an enrich call in its worker thread leaves alone
enrich_frame ==
    <<critic_vars, engine_vars, requests, _schema, _all_columns, _mode,
      _column_embeddings, partial_ratio, cosine, util_vars, schema_reads,
      critic_runs, history_of, run_pc, request_question, chat_history,
      selectedTables, events, context, run_result, stream_read>>

\* resolver.enrich(question, schema) at its entry: the keywords are extracted
EnrichEntry(q, schema) ==
    [NoEnrichCall EXCEPT !.pc = "keyword", !.question = q, !.schema = schema,
                         !.keywords = _extract_keywords(q)]

\* for kw in keywords: with an embedder, semantic_scores =
\* self._get_semantic_scores(kw), which reads self._column_embeddings and
\* raises when there is none
EnrichScores ==
    /\ enrich_call.pc = "keyword"
    /\ enrich_call.keywords # <<>>
    /\ _mode = "hybrid"
    /\ IF _get_semantic_scores(Head(enrich_call.keywords), _column_embeddings,
                               cosine).raised
       THEN /\ enrich_call' = [enrich_call EXCEPT !.pc = "raised",
                                                  !.embeddings = _column_embeddings]
            /\ calls' = Append(calls, [component |-> "resolver",
                                       returned  |-> FALSE])
       ELSE /\ enrich_call' = [enrich_call EXCEPT !.pc = "scan",
                                                  !.embeddings = _column_embeddings]
            /\ calls' = calls
    /\ UNCHANGED <<resolver_pc, enrich_question, enrich_schema, enriched>>
    /\ UNCHANGED enrich_frame

\* for i, entry in enumerate(self._all_columns): the column list is read and
\* scored for the keyword at hand, in hybrid mode against the scores computed
\* before; semantic_scores[i] raises IndexError when the list has grown past
\* the embeddings
EnrichScan ==
    /\ \/ enrich_call.pc = "scan"
       \/ /\ enrich_call.pc = "keyword"
          /\ enrich_call.keywords # <<>>
          /\ _mode # "hybrid"
    /\ LET kw      == Head(enrich_call.keywords)
           active  == {enrich_call.schema[i].key : i \in 1..Len(enrich_call.schema)}
           columns == _all_columns
           scores  == semantic_scores(kw, _mode, enrich_call.embeddings,
                                      cosine).scores
           read    == [keyword |-> kw, columns |-> columns,
                       embeddings |-> enrich_call.embeddings]
       IN  IF ScanRaises(columns, active, _mode, scores)
           THEN /\ enrich_call' = [enrich_call EXCEPT !.pc = "raised",
                                                      !.reads = Append(@, read)]
                /\ calls' = Append(calls, [component |-> "resolver",
                                           returned  |-> FALSE])
           ELSE /\ enrich_call' =
                       [enrich_call EXCEPT
                           !.pc = "keyword",
                           !.keywords = Tail(@),
                           !.reads = Append(@, read),
                           !.best = ScanColumns(@, kw, 1, columns, active, _mode,
                                                scores, partial_ratio)]
                /\ calls' = calls
    /\ UNCHANGED <<resolver_pc, enrich_question, enrich_schema, enriched>>
    /\ UNCHANGED enrich_frame

\* for match in column_matches: the sampling query of one match runs on the
\* dataset as it is now; a query that raises leaves the empty list
EnrichSample ==
    /\ enrich_call.pc = "keyword"
    /\ enrich_call.keywords = <<>>
    /\ enrich_call.next < Len(enrich_call.best)
    /\ LET m == DictValues(enrich_call.best)[enrich_call.next + 1]
       IN  enrich_call' =
               [enrich_call EXCEPT
                   !.next = @ + 1,
                   !.hints = DictSet(@, HintKey(m.table, m.column),
                                     HintValues(conn, m.table, m.column))]
    /\ UNCHANGED <<resolver_pc, enrich_question, enrich_schema, enriched, calls>>
    /\ UNCHANGED enrich_frame

\* after the last match: relevant_tables is built and enrich returns
EnrichReturn ==
    /\ enrich_call.pc = "keyword"
    /\ enrich_call.keywords = <<>>
    /\ enrich_call.next = Len(enrich_call.best)
    /\ LET column_matches == DictValues(enrich_call.best)
       IN  enriched' = [ original_schema |-> enrich_call.schema,
                         column_matches  |-> column_matches,
                         value_hints     |-> enrich_call.hints,
                         relevant_tables |-> DedupTables(column_matches, <<>>) ]
    /\ enrich_question' = enrich_call.question
    /\ enrich_schema' = enrich_call.schema
    /\ resolver_pc' = "enriched"
    /\ enrich_call' = [enrich_call EXCEPT !.pc = "returned"]
    /\ calls' = Append(calls, [component |-> "resolver", returned |-> TRUE])
    /\ UNCHANGED enrich_frame

(***************************************************************************)
(* The streaming query, query.stream.  The generator runs on the event     *)
(* loop from one await to the next; each call it awaits runs in a worker   *)
(* thread at some later point, and the generator is resumed at some point  *)
(* after the worker has returned.  A yield suspends the generator as well: *)
(* the event is sent and the generator is resumed at some later point.     *)
(* Request handlers and their workers run in between.                      *)
(***************************************************************************)
\* what a call of the stream in its worker thread leaves alone
stream_worker_frame ==
    <<critic_vars, engine_vars, resolver_vars, util_vars, requests, enrich_call,
      critic_runs, history_of, run_pc, request_question, chat_history,
      selectedTables, events, context, run_result>>

\* selected_tables = list(request.selectedTables): with no table selected the
\* tables of information_schema are awaited; else "Searching schema for
\* relevant tables..." is yielded
SelectTables(selected, evs) ==
    IF selected = <<>>
    THEN /\ run_pc' = "stream_select"
         /\ events' = evs
         /\ stream_read' = Handed
    ELSE /\ run_pc' = "stream_searching"
         /\ events' = Append(evs, make_event("thinking",
                                      "Searching schema for relevant tables...", <<>>))
         /\ stream_read' = NoRead

\* Variant: the relevance check is evaluated whatever the chat history.
SkipsRelevanceCheck_Never(chat) == FALSE

\* if not request.chat_history: ... (the check is skipped mid-conversation)
SkipsRelevanceCheck(chat) == chat # <<>>

\* POST /query: the generator starts and yields "Analyzing your question..."
StreamStart(q, chat, selected) ==
    /\ run_pc = "idle"
    /\ LoopFree
    /\ request_question' = q
    /\ chat_history' = chat
    /\ selectedTables' = selected
    /\ events' = <<make_event("thinking", "Analyzing your question...", <<>>)>>
    /\ run_pc' = "stream_analyzing"
    /\ stream_read' = NoRead
    /\ UNCHANGED <<calls, context, run_result>>
    /\ UNCHANGED <<critic_vars, engine_vars, resolver_vars>>
    /\ schema_reads' = <<>>
    /\ UNCHANGED <<util_vars, requests, enrich_call, critic_runs, history_of>>

\* the generator is resumed after its first event and runs to its next await
\* or yield: _is_database_question is awaited, or mid-conversation the table
\* selection is entered
StreamCheck ==
    /\ run_pc = "stream_analyzing"
    /\ LoopFree
    /\ IF SkipsRelevanceCheck(chat_history)
       THEN SelectTables(selectedTables, events)
       ELSE /\ run_pc' = "stream_gate"
            /\ events' = events
            /\ stream_read' = Handed
    /\ UNCHANGED <<request_question, chat_history, selectedTables, calls, context,
                   run_result>>
    /\ UNCHANGED <<critic_vars, engine_vars, resolver_vars>>
    /\ UNCHANGED extra_vars

\* _is_database_question in its worker thread, one turn of the loop of its
\* get_schema per step; when the loop is over the words are scanned and the
\* answer is returned
StreamGateRuns ==
    /\ run_pc = "stream_gate"
    /\ stream_read.thread = "running"
    /\ LET read == SchemaTurn(stream_read)
       IN  IF read.thread = "returned"
           THEN LET is_relevant == _is_database_question(request_question,
                                       read.rows, partial_ratio)
                IN  /\ stream_read' = [read EXCEPT !.answer = is_relevant]
                    /\ calls' = Append(calls, [component |-> "relevance",
                                               returned  |-> is_relevant])
                    /\ schema_reads' = Append(schema_reads,
                                           [stage  |-> "relevance",
                                            schema |-> read.rows])
           ELSE /\ stream_read' = read
                /\ UNCHANGED <<calls, schema_reads>>
    /\ UNCHANGED stream_worker_frame

\* Variant: the return after the rejection event is missing.
GateExit_NoReturn(is_relevant) == "stream_select"

\* after the check: on to table selection, or return after the rejection event
GateExit(is_relevant) == IF is_relevant THEN "stream_select" ELSE "stream_done"

\* the generator is resumed with the answer of the gate: a rejected question
\* gets the error event and the generator returns, an accepted one goes on to
\* the table selection; an exception of the check leaves the generator
StreamGate ==
    /\ run_pc = "stream_gate"
    /\ stream_read.thread \in {"returned", "raised"}
    /\ LoopFree
    /\ IF stream_read.thread = "raised"
       THEN /\ run_pc' = "stream_raised"
            /\ stream_read' = NoRead
            /\ UNCHANGED events
       ELSE LET is_relevant == stream_read.answer
                evs == IF is_relevant THEN events
                       ELSE Append(events, make_event("error", RejectionMessage, <<>>))
            IN  IF GateExit(is_relevant) = "stream_done"
                THEN /\ run_pc' = "stream_done"
                     /\ events' = evs
                     /\ stream_read' = NoRead
                ELSE SelectTables(selectedTables, evs)
    /\ UNCHANGED <<request_question, chat_history, selectedTables, calls, context,
                   run_result>>
    /\ UNCHANGED <<critic_vars, engine_vars, resolver_vars>>
    /\ UNCHANGED extra_vars

\* the tables of information_schema.tables, in an order the query decides
AllTablesLists(c) ==
    { order \in SeqsUpTo(DOMAIN c, Cardinality(DOMAIN c)) :
        /\ Len(order) = Cardinality(DOMAIN c)
        /\ \A i, j \in 1..Len(order) : order[i] = order[j] => i = j }

\* the worker thread runs SELECT table_name FROM information_schema.tables on
\* the dataset as it is now
StreamTablesRun ==
    /\ run_pc = "stream_select"
    /\ stream_read.thread = "running"
    /\ \E fallback \in AllTablesLists(conn) :
          stream_read' = [stream_read EXCEPT !.thread = "returned",
                                             !.value = fallback]
    /\ UNCHANGED <<calls, schema_reads>>
    /\ UNCHANGED stream_worker_frame

\* the generator is resumed with the tables found: with no table at all the
\* stream ends with an error, else "Searching schema for relevant tables..."
\* is yielded
StreamSelect ==
    /\ run_pc = "stream_select"
    /\ stream_read.thread = "returned"
    /\ LoopFree
    /\ selectedTables' = stream_read.value
    /\ IF stream_read.value = <<>>
       THEN /\ events' = Append(events, make_event("error", NoTablesMessage, <<>>))
            /\ run_pc' = "stream_done"
            /\ stream_read' = NoRead
       ELSE /\ events' = Append(events, make_event("thinking",
                                  "Searching schema for relevant tables...", <<>>))
            /\ run_pc' = "stream_searching"
            /\ stream_read' = NoRead
    /\ UNCHANGED <<request_question, chat_history, calls, context, run_result>>
    /\ UNCHANGED <<critic_vars, engine_vars, resolver_vars>>
    /\ UNCHANGED extra_vars

\* the generator is resumed after "Searching schema for relevant tables...":
\* engine.get_schema is awaited
StreamSearch ==
    /\ run_pc = "stream_searching"
    /\ LoopFree
    /\ run_pc' = "stream_resolve"
    /\ stream_read' = Handed
    /\ UNCHANGED <<request_question, chat_history, selectedTables, events, calls,
                   context, run_result>>
    /\ UNCHANGED <<critic_vars, engine_vars, resolver_vars>>
    /\ UNCHANGED extra_vars

\* engine.get_schema in its worker thread, one turn of its loop per step
StreamSchemaRuns ==
    /\ run_pc = "stream_resolve"
    /\ stream_read.thread = "running"
    /\ stream_read' = SchemaTurn(stream_read)
    /\ schema_reads' = IF stream_read'.thread = "returned"
                       THEN Append(schema_reads,
                                [stage  |-> "resolution",
                                 schema |-> stream_read'.rows])
                       ELSE schema_reads
    /\ UNCHANGED calls
    /\ UNCHANGED stream_worker_frame

\* the generator is resumed with the schema: it is pruned to the selected
\* tables and resolver.enrich(question, pruned_schema) is awaited; an
\* exception of get_schema leaves the generator
StreamResolve ==
    /\ run_pc = "stream_resolve"
    /\ stream_read.thread \in {"returned", "raised"}
    /\ LoopFree
    /\ IF stream_read.thread = "raised"
       THEN /\ run_pc' = "stream_raised"
            /\ UNCHANGED enrich_call
       ELSE LET schema == stream_read.rows
                pruned_schema ==
                    PruneSchema(schema,
                        {selectedTables[i] : i \in 1..Len(selectedTables)})
            IN  /\ enrich_call' = EnrichEntry(request_question, pruned_schema)
                /\ run_pc' = "stream_enrich"
    /\ stream_read' = NoRead
    /\ UNCHANGED <<request_question, chat_history, selectedTables, events, calls,
                   context, run_result>>
    /\ UNCHANGED <<critic_vars, engine_vars, resolver_vars>>
    /\ UNCHANGED <<util_vars, schema_reads, requests, critic_runs, history_of>>

\* the generator is resumed with the enriched context: "Found relevant
\* tables" is yielded; an exception of enrich leaves the generator
StreamResolved ==
    /\ run_pc = "stream_enrich"
    /\ enrich_call.pc \in {"returned", "raised"}
    /\ LoopFree
    /\ IF enrich_call.pc = "raised"
       THEN /\ run_pc' = "stream_raised"
            /\ UNCHANGED <<events, stream_read>>
       ELSE /\ events' = Append(events,
                             make_event("thinking", "Found relevant tables",
                                        enriched.relevant_tables))
            /\ run_pc' = "stream_found"
            /\ stream_read' = NoRead
    /\ UNCHANGED <<request_question, chat_history, selectedTables, calls, context,
                   run_result>>
    /\ UNCHANGED <<critic_vars, engine_vars, resolver_vars>>
    /\ UNCHANGED extra_vars

\* the generator is resumed after "Found relevant tables": for t in
\* selected_tables, the PRAGMA of the first selected table is awaited
StreamFound ==
    /\ run_pc = "stream_found"
    /\ LoopFree
    /\ run_pc' = "stream_context"
    /\ stream_read' = Handed
    /\ UNCHANGED <<request_question, chat_history, selectedTables, events, calls,
                   context, run_result>>
    /\ UNCHANGED <<critic_vars, engine_vars, resolver_vars>>
    /\ UNCHANGED extra_vars

\* the worker thread runs PRAGMA table_info("t") for the selected table at
\* hand on the dataset as it is now; the statement raises when the table is
\* not there
StreamContextRuns ==
    /\ run_pc = "stream_context"
    /\ stream_read.thread = "running"
    /\ LET t == selectedTables[stream_read.next + 1]
       IN  stream_read' =
               IF t \in DOMAIN conn
               THEN [stream_read EXCEPT !.thread = "returned",
                                        !.value = Describe(conn, t)]
               ELSE [stream_read EXCEPT !.thread = "raised"]
    /\ UNCHANGED <<calls, schema_reads>>
    /\ UNCHANGED stream_worker_frame

\* the generator is resumed: the line of the table is appended to
\* schema_parts, a table the statement failed on is left out; the PRAGMA of
\* the next selected table is awaited, or after the last one
\* strict_schema_string is built and generate_from_context is awaited
StreamContext ==
    /\ run_pc = "stream_context"
    /\ stream_read.thread \in {"returned", "raised"}
    /\ LoopFree
    /\ LET t     == selectedTables[stream_read.next + 1]
           parts == IF stream_read.thread = "returned"
                    THEN Append(stream_read.rows,
                                [table |-> t, columns |-> stream_read.value])
                    ELSE stream_read.rows
       IN  IF stream_read.next + 1 < Len(selectedTables)
           THEN /\ stream_read' = [Handed EXCEPT !.next = stream_read.next + 1,
                                                 !.rows = parts]
                /\ UNCHANGED <<run_pc, context, schema_reads>>
           ELSE /\ context' = [strict_schema |-> parts]
                /\ schema_reads' =
                       Append(schema_reads,
                           [stage  |-> "context",
                            schema |-> [i \in 1..Len(parts) |->
                                           [key   |-> parts[i].table,
                                            value |-> parts[i].columns]]])
                /\ run_pc' = "stream_generate"
                /\ stream_read' = NoRead
    /\ UNCHANGED <<request_question, chat_history, selectedTables, events, calls,
                   run_result>>
    /\ UNCHANGED <<critic_vars, engine_vars, resolver_vars>>
    /\ UNCHANGED <<util_vars, requests, enrich_call, critic_runs, history_of>>

\* Variant: the statement is not sent to the client.
YieldSql_Omitted(evs, sql) == evs

\* yield make_event("sql", content=sql)
YieldSql(evs, sql) == Append(evs, make_event("sql", "sql", sql))

\* generate_from_context returns the statement, sql, and the sql event is
\* yielded
StreamGenerateOk(raw) ==
    /\ run_pc = "stream_generate"
    /\ LoopFree
    /\ calls' = Append(calls, [component |-> "generator", returned |-> TRUE])
    /\ stream_read' = [NoRead EXCEPT !.value = clean_sql(raw)]
    /\ events' = YieldSql(events, stream_read'.value)
    /\ run_pc' = "stream_sql"
    /\ UNCHANGED <<request_question, chat_history, selectedTables, context,
                   run_result>>
    /\ UNCHANGED <<critic_vars, engine_vars, resolver_vars>>
    /\ UNCHANGED extra_vars

\* the generator is resumed after the sql event: critic.execute_with_retry(sql,
\* question, enriched["original_schema"]) is entered
StreamExecute ==
    /\ run_pc = "stream_sql"
    /\ LoopFree
    /\ calls' = Append(calls, [component |-> "critic", returned |-> TRUE])
    /\ CallCritic(stream_read.value, request_question)
    /\ run_pc' = "stream_critic"
    /\ stream_read' = NoRead
    /\ UNCHANGED <<request_question, chat_history, selectedTables, events, context,
                   run_result>>
    /\ UNCHANGED <<engine_vars, resolver_vars>>
    /\ UNCHANGED extra_vars

\* Variant: the critic is entered although no statement was generated.
StreamGenerateFail_EntersCritic ==
    /\ run_pc = "stream_generate"
    /\ LoopFree
    /\ calls' = Append(Append(calls, [component |-> "generator", returned |-> FALSE]),
                       [component |-> "critic", returned |-> TRUE])
    /\ CallCritic(<<>>, request_question)
    /\ run_pc' = "stream_critic"
    /\ UNCHANGED <<request_question, chat_history, selectedTables, events, context,
                   run_result, stream_read>>
    /\ UNCHANGED <<engine_vars, resolver_vars>>
    /\ UNCHANGED extra_vars

\* generate_from_context raises: nothing in the generator catches it
StreamGenerateFail ==
    /\ run_pc = "stream_generate"
    /\ LoopFree
    /\ calls' = Append(calls, [component |-> "generator", returned |-> FALSE])
    /\ generation_failed' = TRUE
    /\ run_pc' = "stream_raised"
    /\ UNCHANGED <<request_question, chat_history, selectedTables, events, context,
                   run_result, stream_read>>
    /\ UNCHANGED <<max_retries, question, critic_pc, attempt, current_sql, history,
                   result, executions, corrections>>
    /\ UNCHANGED <<engine_vars, resolver_vars>>
    /\ UNCHANGED extra_vars

\* Variant: the notice is sent from the first attempt on.
NeedsRefineNotice_FromFirst(r) == r.attempts >= 1

\* if result.get("attempts", 1) > 1
NeedsRefineNotice(r) == r.attempts > 1

\* execute_with_retry has returned: the refinement notice when retries were needed
StreamAfterCritic ==
    /\ run_pc = "stream_critic"
    /\ LoopFree
    /\ critic_pc = "returned"
    /\ events' = IF NeedsRefineNotice(result)
                 THEN Append(events, make_event("thinking", "Refining query...",
                                                result.attempts))
                 ELSE events
    /\ run_pc' = "stream_report"
    /\ UNCHANGED <<request_question, chat_history, selectedTables, calls, context,
                   run_result, stream_read>>
    /\ UNCHANGED <<critic_vars, engine_vars, resolver_vars>>
    /\ UNCHANGED extra_vars

\* execute_with_retry raised (a correction request failed): nothing in the
\* generator catches it
StreamCriticRaised ==
    /\ run_pc = "stream_critic"
    /\ LoopFree
    /\ critic_pc = "raised"
    /\ run_pc' = "stream_raised"
    /\ UNCHANGED <<request_question, chat_history, selectedTables, events, calls,
                   context, run_result, stream_read>>
    /\ UNCHANGED <<critic_vars, engine_vars, resolver_vars>>
    /\ UNCHANGED extra_vars

\* Variant: the result event reports a single attempt whatever the critic did.
ResultEvent_OneAttempt(r) ==
    make_event("result", "records",
        [records   |-> Records(r.data),
         row_count |-> Len(Records(r.data)),
         attempts  |-> 1])

\* make_event("result", content=records, row_count=len(records),
\*            attempts=result["attempts"])
ResultEvent(r) ==
    make_event("result", "records",
        [records   |-> Records(r.data),
         row_count |-> Len(Records(r.data)),
         attempts  |-> r.attempts])

\* the result event of a success, or the error event of a failure
StreamReport ==
    /\ run_pc = "stream_report"
    /\ LoopFree
    /\ IF result.success
       THEN /\ events' = Append(events, ResultEvent(result))
            /\ run_pc' = "stream_summary_start"
       ELSE /\ events' = Append(events, make_event("error", "critic", result.error))
            /\ run_pc' = "stream_done"
    /\ UNCHANGED <<request_question, chat_history, selectedTables, calls, context,
                   run_result, stream_read>>
    /\ UNCHANGED <<critic_vars, engine_vars, resolver_vars>>
    /\ UNCHANGED extra_vars

\* yield "Generating insight summary..."
StreamSummaryStart ==
    /\ run_pc = "stream_summary_start"
    /\ LoopFree
    /\ events' = Append(events,
                        make_event("thinking", "Generating insight summary...", <<>>))
    /\ run_pc' = "stream_summary"
    /\ UNCHANGED <<request_question, chat_history, selectedTables, calls, context,
                   run_result, stream_read>>
    /\ UNCHANGED <<critic_vars, engine_vars, resolver_vars>>
    /\ UNCHANGED extra_vars

IsSummaryEvent(e) == e.type = "summary"

\* the stream delivers one more chunk
StreamSummaryChunk ==
    /\ run_pc = "stream_summary"
    /\ LoopFree
    /\ Len(SelectSeq(events, IsSummaryEvent)) < MaxChunks
    /\ events' = Append(events, make_event("summary", "chunk",
                                    Len(SelectSeq(events, IsSummaryEvent)) + 1))
    /\ UNCHANGED <<run_pc, request_question, chat_history, selectedTables, calls,
                   context, run_result, stream_read>>
    /\ UNCHANGED <<critic_vars, engine_vars, resolver_vars>>
    /\ UNCHANGED extra_vars

\* the stream is exhausted: summary_done
StreamSummaryDone ==
    /\ run_pc = "stream_summary"
    /\ LoopFree
    /\ events' = Append(events, make_event("summary_done", "", <<>>))
    /\ run_pc' = "stream_done"
    /\ UNCHANGED <<request_question, chat_history, selectedTables, calls, context,
                   run_result, stream_read>>
    /\ UNCHANGED <<critic_vars, engine_vars, resolver_vars>>
    /\ UNCHANGED extra_vars

\* Variant: summary_done is sent after the failure report as well.
SummaryFailureEvents_AlsoDone(evs) ==
    Append(Append(evs, make_event("error", "Insight generation failed", <<>>)),
           make_event("summary_done", "", <<>>))

\* except Exception as e: yield make_event("error", "Insight generation failed: ...")
SummaryFailureEvents(evs) ==
    Append(evs, make_event("error", "Insight generation failed", <<>>))

\* stream_chat raises, before the first chunk or between two chunks
StreamSummaryFail ==
    /\ run_pc = "stream_summary"
    /\ LoopFree
    /\ events' = SummaryFailureEvents(events)
    /\ run_pc' = "stream_done"
    /\ UNCHANGED <<request_question, chat_history, selectedTables, calls, context,
                   run_result, stream_read>>
    /\ UNCHANGED <<critic_vars, engine_vars, resolver_vars>>
    /\ UNCHANGED extra_vars

\* Orchestrator.run(question) up to its first await: the relevance gate, and
\* for an accepted question schema resolution and context assembly
RunStart(q) ==
    /\ run_pc = "idle"
    /\ request_question' = q
    /\ LET schema == get_schema(_tables, conn)
           is_relevant == _is_database_question(q, schema, partial_ratio)
       IN  IF ~is_relevant
           THEN /\ calls' = Append(calls, [component |-> "relevance",
                                           returned  |-> FALSE])
                /\ run_result' = RejectedResult(schema)
                /\ run_pc' = "run_returned"
                /\ UNCHANGED <<context, resolver_vars>>
           ELSE IF EnrichRaises(q, schema, _all_columns, _mode,
                                _column_embeddings, partial_ratio, cosine)
           THEN /\ calls' = Append(Append(calls, [component |-> "relevance",
                                                  returned  |-> TRUE]),
                                   [component |-> "resolver", returned |-> FALSE])
                /\ run_pc' = "run_raised"
                /\ UNCHANGED <<context, run_result, resolver_vars>>
           ELSE /\ calls' = Append(Append(calls, [component |-> "relevance",
                                                  returned  |-> TRUE]),
                                   [component |-> "resolver", returned |-> TRUE])
                /\ CallEnrich(q, schema)
                /\ context' = RunContext(enriched', _mode, schema, conn)
                /\ run_pc' = "run_generate"
                /\ UNCHANGED run_result
    /\ UNCHANGED <<chat_history, selectedTables, events, stream_read>>
    /\ UNCHANGED <<critic_vars, engine_vars>>
    /\ UNCHANGED extra_vars

\* generate_from_context returns and execute_with_retry is entered
RunGenerateOk(raw) ==
    /\ run_pc = "run_generate"
    /\ calls' = Append(Append(calls, [component |-> "generator", returned |-> TRUE]),
                       [component |-> "critic", returned |-> TRUE])
    /\ CallCritic(clean_sql(raw), request_question)
    /\ run_pc' = "run_critic"
    /\ UNCHANGED <<request_question, chat_history, selectedTables, events, context,
                   run_result, stream_read>>
    /\ UNCHANGED <<engine_vars, resolver_vars>>
    /\ UNCHANGED extra_vars

\* generate_from_context raises: run raises to its caller
RunGenerateFail ==
    /\ run_pc = "run_generate"
    /\ calls' = Append(calls, [component |-> "generator", returned |-> FALSE])
    /\ generation_failed' = TRUE
    /\ run_pc' = "run_raised"
    /\ UNCHANGED <<request_question, chat_history, selectedTables, events, context,
                   run_result, stream_read>>
    /\ UNCHANGED <<max_retries, question, critic_pc, attempt, current_sql, history,
                   result, executions, corrections>>
    /\ UNCHANGED <<engine_vars, resolver_vars>>
    /\ UNCHANGED extra_vars

\* execute_with_retry has returned: the three fields are added and run returns
RunCriticReturned ==
    /\ run_pc = "run_critic"
    /\ critic_pc = "returned"
    /\ run_result' = PipelineResult(result, request_question, enriched)
    /\ run_pc' = "run_returned"
    /\ UNCHANGED <<request_question, chat_history, selectedTables, events, calls,
                   context, stream_read>>
    /\ UNCHANGED <<critic_vars, engine_vars, resolver_vars>>
    /\ UNCHANGED extra_vars

\* execute_with_retry raised: run raises to its caller
RunCriticRaised ==
    /\ run_pc = "run_critic"
    /\ critic_pc = "raised"
    /\ run_pc' = "run_raised"
    /\ UNCHANGED <<request_question, chat_history, selectedTables, events, calls,
                   context, run_result, stream_read>>
    /\ UNCHANGED <<critic_vars, engine_vars, resolver_vars>>
    /\ UNCHANGED extra_vars

PipelineNext ==
    \/ \E q \in PipelineQuestions, chat \in ChatHistories,
          selected \in SelectedTableLists : StreamStart(q, chat, selected)
    \/ StreamCheck
    \/ StreamGateRuns
    \/ StreamGate
    \/ StreamTablesRun
    \/ StreamSelect
    \/ StreamSearch
    \/ StreamSchemaRuns
    \/ StreamResolve
    \/ EnrichScan
    \/ EnrichSample
    \/ EnrichReturn
    \/ StreamResolved
    \/ StreamFound
    \/ StreamContextRuns
    \/ StreamContext
    \/ \E raw \in RawOutputs : StreamGenerateOk(raw)
    \/ StreamExecute
    \/ StreamGenerateFail
    \/ StreamAfterCritic
    \/ StreamCriticRaised
    \/ StreamReport
    \/ StreamSummaryStart
    \/ StreamSummaryChunk
    \/ StreamSummaryDone
    \/ StreamSummaryFail
    \/ \E q \in PipelineQuestions : RunStart(q)
    \/ \E raw \in RawOutputs : RunGenerateOk(raw)
    \/ RunGenerateFail
    \/ RunCriticReturned
    \/ RunCriticRaised
    \/ CriticEnterLoop
    \/ \E data \in DataFrames : CriticExecuteOk(data)
    \/ \E err \in PipelineErrorMessages : CriticExecuteFail(err)
    \/ \E raw \in PipelineCorrections : CriticCorrectionOk(raw)
    \/ CriticCorrectionFail

(***************************************************************************)
(* The utility functions applied to inputs of their own: one call each.    *)
(***************************************************************************)

\* Longest name explored character by character.
MaxNameLen == 3

NameChars == {"A", "k", "1", "_", " ", "?"}

RECURSIVE Repeat(_, _)
Repeat(c, n) == IF n = 0 THEN <<>> ELSE <<c>> \o Repeat(c, n - 1)

\* names around the 64 characters the result is cut to, with and without a
\* leading digit or a removed character
LongNames ==
    { prefix \o Repeat("k", n) :
        prefix \in {<<>>, <<"1">>, <<"?">>, <<"A", " ">>},
        n \in (MaxIdentifierLen - 2)..(MaxIdentifierLen + 1) }

IdentifierInputs == SeqsUpTo(NameChars, MaxNameLen) \cup LongNames

\* Most lines of a raw text explored.
MaxLines == 5

\* the lines raw texts are made of: fence lines with and without a language
\* tag or surrounding blanks, statements of either keyword group in either
\* case, prose, empty lines
LineKinds ==
    { <<>>, <<"fence">>, <<"fence", "sql">>, <<"sp", "fence">>,
      <<"select">>, <<"SELECT", "sp">>, <<"sp", "select">>, <<"with">>,
      <<"sql">> }

\* what the text-generation capability may return: any text of n such lines
RawLines(n) == [1..n -> LineKinds]

KeywordQuestionChars == {"K", "a", "n", " ", "?"}

\* questions with words of several letters, stop words among them
KeywordQuestions == SeqsUpTo(KeywordQuestionChars, MaxQuestionLen)

\* a partial_ratio defined on every piece a question can be split into, so
\* that whatever is scored against a column shows up in a match; a longer
\* piece scores higher
PieceRatio ==
    [p \in SeqsUpTo(KeywordQuestionChars \cup {"k"}, MaxQuestionLen + 1)
           \X LowerColumnNames |-> fuzzy_threshold + Len(p[1])]

non_util_vars ==
    <<critic_vars, engine_vars, resolver_vars, pipeline_vars,
      schema_reads, requests, enrich_call, critic_runs, history_of>>

\* sanitize_identifier(identifier), for one of the names above
SanitizeIdentifier ==
    /\ util_pc = "idle"
    /\ \E identifier \in IdentifierInputs :
          /\ util_input' = identifier
          /\ util_output' = sanitize_identifier(identifier)
    /\ util_pc' = "sanitize_identifier"
    /\ UNCHANGED non_util_vars

\* clean_sql(raw) for one of the raw texts, and clean_sql applied to what it
\* returned
CleanSql ==
    /\ util_pc = "idle"
    /\ \E n \in 0..MaxLines : \E lines \in RawLines(n) :
          LET raw == JoinLines(lines)
          IN  /\ util_input' = raw
              /\ util_output' = <<clean_sql(raw), clean_sql(clean_sql(raw))>>
    /\ util_pc' = "clean_sql"
    /\ UNCHANGED non_util_vars

\* resolver._extract_keywords(question), and the matches resolver.enrich
\* records for the question on the table of FileA
ExtractKeywords ==
    /\ util_pc = "idle"
    /\ \E q \in KeywordQuestions :
          LET loaded == LoadDir(<<FileA>>, <<>>, <<>>)
              schema == get_schema(loaded.tables, loaded.conn)
          IN  /\ util_input' = q
              /\ util_output' =
                     <<_extract_keywords(q),
                       enrich(q, schema, FlattenSchema(schema), "fuzzy", <<>>,
                              PieceRatio, <<>>, loaded.conn).column_matches>>
    /\ util_pc' = "_extract_keywords"
    /\ UNCHANGED non_util_vars

UtilsNext ==
    \/ SanitizeIdentifier
    \/ CleanSql
    \/ ExtractKeywords

(***************************************************************************)
(* Several execute_with_retry calls in progress on the one CriticAgent of  *)
(* the module-level orchestrator: each pipeline run awaits its own call,   *)
(* and the calls interleave at the await of llm_chat.                      *)
(***************************************************************************)
CriticRuns == {1, 2}

\* the statements the runs hand to the critic
InitialStatements == { <<"select">>, <<"sql">> }

NoRun ==
    [ pc |-> "idle", attempt |-> 0, current_sql |-> <<>>, failures |-> <<>>,
      corrections |-> <<>>, result |-> NoResult ]

\* Variant: self.history, one list on the shared CriticAgent.
HistoryScope_Instance(r) == 1

\* history = []: a local of the call, so one list per call
HistoryScope(r) == r

concurrency_frame ==
    <<critic_vars, engine_vars, resolver_vars, pipeline_vars,
      util_vars, schema_reads, requests, enrich_call>>

\* execute_with_retry(sql, question, schema) is called by run r
ExecuteWithRetryCall(r, sql) ==
    /\ critic_runs[r].pc = "idle"
    /\ critic_runs' = [critic_runs EXCEPT ![r] =
                          [NoRun EXCEPT !.pc = "called", !.current_sql = sql]]
    /\ history_of' = [history_of EXCEPT ![HistoryScope(r)] = <<>>]
    /\ UNCHANGED concurrency_frame

\* the for loop is entered, or fallen through when the range is empty
ExecuteWithRetryEnter(r) ==
    /\ critic_runs[r].pc = "called"
    /\ LET run == critic_runs[r]
       IN  critic_runs' = [critic_runs EXCEPT ![r] =
               IF RangeHasNext(0, max_retries)
               THEN [run EXCEPT !.attempt = 1, !.pc = "attempting"]
               ELSE [run EXCEPT !.pc = "returned",
                         !.result = ExceededResult(run.current_sql, max_retries)]]
    /\ UNCHANGED history_of
    /\ UNCHANGED concurrency_frame

\* self.engine.execute(current_sql) returns data
ExecuteWithRetryOk(r, data) ==
    /\ critic_runs[r].pc = "attempting"
    /\ LET run == critic_runs[r]
       IN  critic_runs' = [critic_runs EXCEPT ![r] =
               [run EXCEPT !.pc = "returned",
                    !.result = SuccessResult(run.current_sql, data, run.attempt)]]
    /\ UNCHANGED history_of
    /\ UNCHANGED concurrency_frame

\* self.engine.execute(current_sql) raises ValueError: the history grows and
\* the call returns on the last attempt, or builds the correction prompt and
\* awaits llm_chat
ExecuteWithRetryFail(r, err) ==
    /\ critic_runs[r].pc = "attempting"
    /\ LET run == critic_runs[r]
           h   == HistoryAppend(history_of[HistoryScope(r)], run.current_sql, err)
           failed == [run EXCEPT !.failures =
                          Append(@, [sql |-> run.current_sql, error |-> err])]
       IN  /\ history_of' = [history_of EXCEPT ![HistoryScope(r)] = h]
           /\ critic_runs' = [critic_runs EXCEPT ![r] =
                  IF IsLastAttempt(run.attempt, max_retries)
                  THEN [failed EXCEPT !.pc = "returned",
                            !.result = FailureResult(run.current_sql, err, run.attempt)]
                  ELSE [failed EXCEPT !.pc = "correcting",
                            !.corrections =
                                Append(@, get_correction_prompt("q", run.current_sql,
                                                                err, h))]]
    /\ UNCHANGED concurrency_frame

\* llm_chat returns raw: current_sql = clean_sql(raw) and the loop goes on
ExecuteWithRetryCorrected(r, raw) ==
    /\ critic_runs[r].pc = "correcting"
    /\ LET run == critic_runs[r]
       IN  critic_runs' = [critic_runs EXCEPT ![r] =
               IF RangeHasNext(run.attempt, max_retries)
               THEN [run EXCEPT !.current_sql = clean_sql(raw),
                         !.attempt = run.attempt + 1, !.pc = "attempting"]
               ELSE [run EXCEPT !.current_sql = clean_sql(raw), !.pc = "returned",
                         !.result = ExceededResult(clean_sql(raw), max_retries)]]
    /\ UNCHANGED history_of
    /\ UNCHANGED concurrency_frame

\* llm_chat raises: the exception leaves the call
ExecuteWithRetryRaised(r) ==
    /\ critic_runs[r].pc = "correcting"
    /\ critic_runs' = [critic_runs EXCEPT ![r].pc = "raised"]
    /\ UNCHANGED history_of
    /\ UNCHANGED concurrency_frame

CriticRunsInit ==
    /\ max_retries \in 1..MaxRetriesBound
    /\ question = "q"
    /\ critic_pc = "idle"
    /\ attempt = 0
    /\ current_sql = <<>>
    /\ history = <<>>
    /\ result = NoResult
    /\ executions = <<>>
    /\ corrections = <<>>
    /\ generation_failed = FALSE
    /\ critic_runs = [r \in CriticRuns |-> NoRun]
    /\ history_of = [r \in CriticRuns |-> <<>>]
    /\ util_pc = "idle"
    /\ util_input = <<>>
    /\ util_output = <<>>
    /\ schema_reads = <<>>
    /\ requests = NoRequests
    /\ enrich_call = NoEnrichCall

CriticRunsNext ==
    \/ \E r \in CriticRuns, sql \in InitialStatements : ExecuteWithRetryCall(r, sql)
    \/ \E r \in CriticRuns : ExecuteWithRetryEnter(r)
    \/ \E r \in CriticRuns, data \in DataFrames : ExecuteWithRetryOk(r, data)
    \/ \E r \in CriticRuns, err \in ErrorMessages : ExecuteWithRetryFail(r, err)
    \/ \E r \in CriticRuns, raw \in PipelineCorrections \cup {<<"sql">>} :
          ExecuteWithRetryCorrected(r, raw)
    \/ \E r \in CriticRuns : ExecuteWithRetryRaised(r)

(***************************************************************************)
(* A stream in flight while a table is uploaded or dropped: the handler of *)
(* the request and its workers run between the steps of the stream.        *)
(***************************************************************************)
\* the files uploaded while a stream is in flight
StreamUploadFiles == {FileA, FileK}

\* the streams in flight: a question with a word of the schema and one
\* without, all tables or two tables selected
StreamQuestions == { <<"a">>, <<"K">> }

StreamSelectedLists == { <<>>, << <<"a">>, <<"b", "_", "k">> >> }

\* partial_ratio of these runs: every pair just below, or at, the threshold
StreamRatioTables ==
    { t \in PipelineRatioTables : \A p, r \in DOMAIN t : t[p] = t[r] }

\* the requests served while the stream is in flight
StreamRequestIds == {1}

StreamMutationNext ==
    \/ \E q \in StreamQuestions, chat \in ChatHistories,
          selected \in StreamSelectedLists : StreamStart(q, chat, selected)
    \/ StreamCheck
    \/ StreamGateRuns
    \/ StreamGate
    \/ StreamTablesRun
    \/ StreamSelect
    \/ StreamSearch
    \/ StreamSchemaRuns
    \/ StreamResolve
    \/ EnrichScan
    \/ EnrichSample
    \/ EnrichReturn
    \/ StreamResolved
    \/ StreamFound
    \/ StreamContextRuns
    \/ StreamContext
    \/ \E raw \in PipelineCorrections : StreamGenerateOk(raw)
    \/ StreamGenerateFail
    \/ \E r \in StreamRequestIds, file \in StreamUploadFiles : UploadBegin(r, file)
    \/ \E r \in StreamRequestIds : UploadDropRuns(r)
    \/ \E r \in StreamRequestIds : UploadAfterDrop(r)
    \/ \E r \in StreamRequestIds : UploadOpens(r)
    \/ \E r \in StreamRequestIds : UploadWrites(r)
    \/ \E r \in StreamRequestIds : UploadCloses(r)
    \/ \E r \in StreamRequestIds : UploadCreateRuns(r)
    \/ \E r \in StreamRequestIds : UploadAfterCreate(r)
    \/ \E r \in StreamRequestIds : UploadCountRuns(r)
    \/ \E r \in StreamRequestIds : UploadAfterCount(r)
    \/ \E r \in StreamRequestIds : UploadSchemaRuns(r)
    \/ \E r \in StreamRequestIds : RefreshAssignSchema(r)
    \/ \E r \in StreamRequestIds : RefreshSampleRuns(r)
    \/ \E r \in StreamRequestIds : RefreshAssignColumns(r)
    \/ \E r \in StreamRequestIds, name \in PipelineTableNames : DeleteBegin(r, name)
    \/ \E r \in StreamRequestIds : DeleteDropRuns(r)
    \/ \E r \in StreamRequestIds : DeleteAfterDrop(r)
    \/ \E r \in StreamRequestIds : DeleteUnlinks(r)

(***************************************************************************)
(* Two upload or drop requests in flight at once.                          *)
(***************************************************************************)
\* the similarity functions of the runs with requests in flight
LevelTables ==
    { [mode |-> "fuzzy", fz |-> [p \in ScorePairs |-> fuzzy_threshold], cos |-> <<>>],
      [mode |-> "hybrid", fz |-> [p \in ScorePairs |-> fuzzy_threshold - 1],
       cos |-> [p \in ScorePairs |-> fuzzy_threshold + 1]] }

\* the server after startup on one of these data directories: engine and
\* resolver built, no request in flight
ServerInit(dirs) ==
    /\ \E dir \in dirs :
          /\ _tables = LoadDir(dir, <<>>, <<>>).tables
          /\ conn = LoadDir(dir, <<>>, <<>>).conn
          /\ data_dir = DirFiles(dir)
    /\ _schema = get_schema(_tables, conn)
    /\ _all_columns = FlattenSchema(_schema)
    /\ \E sim \in LevelTables :
          /\ _mode = sim.mode
          /\ partial_ratio = sim.fz
          /\ cosine = sim.cos
    /\ _column_embeddings =
           IF _mode = "hybrid" THEN EncodeColumns(_all_columns) ELSE <<>>
    /\ resolver_pc = "idle"
    /\ enrich_question = <<>>
    /\ enrich_schema = <<>>
    /\ enriched = NoEnriched
    /\ requests = NoRequests
    /\ enrich_call = NoEnrichCall
    /\ util_pc = "idle"
    /\ util_input = <<>>
    /\ util_output = <<>>
    /\ schema_reads = <<>>
    /\ critic_runs = <<>>
    /\ history_of = <<>>

RequestsInit == ServerInit({<<>>, <<FileA>>})

RequestsNext ==
    \/ \E r \in RequestIds, file \in UploadFiles : UploadBegin(r, file)
    \/ \E r \in RequestIds : UploadDropRuns(r)
    \/ \E r \in RequestIds : UploadAfterDrop(r)
    \/ \E r \in RequestIds : UploadOpens(r)
    \/ \E r \in RequestIds : UploadWrites(r)
    \/ \E r \in RequestIds : UploadCloses(r)
    \/ \E r \in RequestIds : UploadCreateRuns(r)
    \/ \E r \in RequestIds : UploadAfterCreate(r)
    \/ \E r \in RequestIds : UploadCountRuns(r)
    \/ \E r \in RequestIds : UploadAfterCount(r)
    \/ \E r \in RequestIds : UploadSchemaRuns(r)
    \/ \E r \in RequestIds : RefreshAssignSchema(r)
    \/ \E r \in RequestIds : RefreshSampleRuns(r)
    \/ \E r \in RequestIds : RefreshAssignColumns(r)
    \/ \E r \in RequestIds : RefreshEncodeRuns(r)
    \/ \E r \in RequestIds : RefreshAssignEmbeddings(r)
    \/ \E r \in RequestIds, name \in TableNames : DeleteBegin(r, name)
    \/ \E r \in RequestIds : DeleteDropRuns(r)
    \/ \E r \in RequestIds : DeleteAfterDrop(r)
    \/ \E r \in RequestIds : DeleteUnlinks(r)

(***************************************************************************)
(* A stream up to SQL generation, mid-conversation and with tables         *)
(* selected, while one upload or drop request is served: get_schema and    *)
(* resolver.enrich run in their worker threads, keyword by keyword, and    *)
(* the handler of the request and its workers run in between.              *)
(***************************************************************************)
RefreshRequestIds == {1}

\* the questions of the stream: one keyword, two keywords
EnrichCallQuestions == { <<"K">>, <<"K", " ", "c">> }

\* request.selectedTables of the stream: one table, both tables
RefreshSelectedLists == { << <<"a">> >>, << <<"b">> >>, << <<"a">>, <<"b">> >> }

RefreshInit == ServerInit(InitialDirs)

RefreshNext ==
    \/ \E q \in EnrichCallQuestions, selected \in RefreshSelectedLists :
          StreamStart(q, <<"turn">>, selected)
    \/ StreamCheck
    \/ StreamSearch
    \/ StreamSchemaRuns
    \/ StreamResolve
    \/ EnrichScores
    \/ EnrichScan
    \/ EnrichSample
    \/ EnrichReturn
    \/ StreamResolved
    \/ StreamFound
    \/ StreamContextRuns
    \/ StreamContext
    \/ \E r \in RefreshRequestIds, file \in UploadFiles : UploadBegin(r, file)
    \/ \E r \in RefreshRequestIds : UploadDropRuns(r)
    \/ \E r \in RefreshRequestIds : UploadAfterDrop(r)
    \/ \E r \in RefreshRequestIds : UploadOpens(r)
    \/ \E r \in RefreshRequestIds : UploadWrites(r)
    \/ \E r \in RefreshRequestIds : UploadCloses(r)
    \/ \E r \in RefreshRequestIds : UploadCreateRuns(r)
    \/ \E r \in RefreshRequestIds : UploadAfterCreate(r)
    \/ \E r \in RefreshRequestIds : UploadCountRuns(r)
    \/ \E r \in RefreshRequestIds : UploadAfterCount(r)
    \/ \E r \in RefreshRequestIds : UploadSchemaRuns(r)
    \/ \E r \in RefreshRequestIds : RefreshAssignSchema(r)
    \/ \E r \in RefreshRequestIds : RefreshSampleRuns(r)
    \/ \E r \in RefreshRequestIds : RefreshAssignColumns(r)
    \/ \E r \in RefreshRequestIds : RefreshEncodeRuns(r)
    \/ \E r \in RefreshRequestIds : RefreshAssignEmbeddings(r)
    \/ \E r \in RefreshRequestIds, name \in TableNames : DeleteBegin(r, name)
    \/ \E r \in RefreshRequestIds : DeleteDropRuns(r)
    \/ \E r \in RefreshRequestIds : DeleteAfterDrop(r)
    \/ \E r \in RefreshRequestIds : DeleteUnlinks(r)

\* no utility call, no request, no worker thread and no concurrent critic call
ExtraIdle ==
    /\ util_pc = "idle"
    /\ util_input = <<>>
    /\ util_output = <<>>
    /\ schema_reads = <<>>
    /\ requests = NoRequests
    /\ enrich_call = NoEnrichCall
    /\ critic_runs = <<>>
    /\ history_of = <<>>

all_vars == <<critic_vars, engine_vars, resolver_vars, pipeline_vars, extra_vars>>

CriticSpecInit == CriticInit /\ ResolverIdle /\ PipelineIdle /\ ExtraIdle

CriticSpec == CriticSpecInit /\ [][CriticNext]_all_vars

ResolverSpecInit == ResolverInit /\ CriticIdle /\ PipelineIdle /\ ExtraIdle

ResolverSpec == ResolverSpecInit /\ [][ResolverNext]_all_vars

PipelineSpecInit == PipelineInit /\ ExtraIdle

\* one pipeline run, streamed or not, on a freshly built orchestrator
PipelineSpec == PipelineSpecInit /\ [][PipelineNext]_all_vars

CriticRunsSpecInit == CriticRunsInit /\ ResolverIdle /\ PipelineIdle

\* two pipeline runs in their critic stage at once
CriticRunsSpec == CriticRunsSpecInit /\ [][CriticRunsNext]_all_vars

SequentialSpecInit == ResolverInit /\ CriticIdle /\ PipelineIdle /\ ExtraIdle

SequentialSpec == SequentialSpecInit /\ [][SequentialNext]_all_vars

StreamMutationSpecInit ==
    PipelineInit /\ ExtraIdle /\ partial_ratio \in StreamRatioTables

\* a stream from its first event to SQL generation, fuzzy matching, with one
\* upload or drop request arriving at any point of it
StreamMutationSpec == StreamMutationSpecInit /\ [][StreamMutationNext]_all_vars

RequestsSpecInit == RequestsInit /\ CriticIdle /\ PipelineIdle

\* two upload or drop requests in flight at once
RequestsSpec == RequestsSpecInit /\ [][RequestsNext]_all_vars

RefreshSpecInit == RefreshInit /\ CriticIdle /\ PipelineIdle

\* a stream whose enrich call runs step by step in its worker thread, in
\* either matching mode, while an upload refreshes the resolver's caches
RefreshSpec == RefreshSpecInit /\ [][RefreshNext]_all_vars

UtilsSpecInit == CriticIdle /\ ResolverIdle /\ PipelineIdle /\ ExtraIdle

\* one call of a utility function on one input
UtilsSpec == UtilsSpecInit /\ [][UtilsNext]_all_vars

(***************************************************************************)
(* Properties of execute_with_retry.                                       *)
(***************************************************************************)
NumExecutions == Len(executions)

AllExecutionsFailed == \A i \in 1..NumExecutions : ~executions[i].ok

\* C1: for max_retries >= 1, an invocation whose engine executions all failed
\* returns success = false, attempts = max_retries, the sql and the error of
\* the last execution, after exactly max_retries executions and with
\* max_retries history entries.
C1_AlwaysFailingExhaustsBudget ==
    (critic_pc = "returned" /\ max_retries >= 1 /\ AllExecutionsFailed) =>
        /\ NumExecutions = max_retries
        /\ Len(history) = max_retries
        /\ result = [ success  |-> FALSE,
                      sql      |-> executions[NumExecutions].sql,
                      error    |-> executions[NumExecutions].out,
                      attempts |-> max_retries ]

C1_Witness ==
    /\ critic_pc = "returned"
    /\ max_retries >= 2
    /\ NumExecutions = max_retries
    /\ AllExecutionsFailed
    /\ executions[1].sql # executions[2].sql

\* C2: when the k-th execution succeeds it is the last one, k <= max_retries,
\* the call has returned success = true, attempts = k, the k-th statement and
\* its data, and exactly the k-1 corrections made before it were requested.
C2_SuccessOnKthAttempt ==
    \A k \in 1..NumExecutions :
        executions[k].ok =>
            /\ k = NumExecutions
            /\ k <= max_retries
            /\ Len(corrections) = k - 1
            /\ critic_pc = "returned"
            /\ result = [ success  |-> TRUE,
                          sql      |-> executions[k].sql,
                          data     |-> executions[k].out,
                          attempts |-> k ]

C2_Witness ==
    /\ critic_pc = "returned"
    /\ NumExecutions >= 2
    /\ executions[NumExecutions].ok
    /\ executions[NumExecutions].sql # executions[1].sql

\* C3: for every max_retries >= 0 an invocation makes at most max_retries
\* engine executions and at most max(0, max_retries - 1) correction requests;
\* a returned result has attempts = number of executions made, and success is
\* true exactly when the last execution made succeeded.
C3_BudgetAndAttempts ==
    /\ NumExecutions <= max_retries
    /\ Len(corrections) <= (IF max_retries >= 1 THEN max_retries - 1 ELSE 0)
    /\ critic_pc = "returned" =>
           /\ result.attempts = NumExecutions
           /\ result.success = (NumExecutions >= 1 /\ executions[NumExecutions].ok)

C3_Witness ==
    /\ critic_pc = "returned"
    /\ max_retries = MaxRetriesBound
    /\ NumExecutions = max_retries
    /\ Len(corrections) = max_retries - 1

\* the history entries a prompt must show after n failed executions
ExpectedAttempts(n) ==
    [i \in 1..n |-> [n |-> i, sql |-> executions[i].sql, error |-> executions[i].out]]

IsPrefix(s, t) == Len(s) <= Len(t) /\ SubSeq(t, 1, Len(s)) = s

\* C4: the correction request made after the n-th failed execution (n <
\* max_retries) carries the whole history: n entries in execution order, entry
\* i being the i-th executed statement with its error, the last one being the
\* current failing SQL and error; and the history only grows by appending.
C4_CorrectionGetsWholeHistory ==
    /\ [](\A n \in 1..Len(corrections) :
             /\ n < max_retries
             /\ n <= NumExecutions
             /\ \A i \in 1..n : ~executions[i].ok
             /\ corrections[n].attempts = ExpectedAttempts(n)
             /\ corrections[n].failed_sql = executions[n].sql
             /\ corrections[n].error_message = executions[n].out)
    /\ [][IsPrefix(history, history')]_critic_vars

C4_Witness ==
    /\ Len(corrections) >= 2
    /\ Len(corrections[2].attempts) = 2
    /\ corrections[2].attempts[1].sql # corrections[2].attempts[2].sql

\* C5: every correction request follows a failed engine execution; once a
\* text-generation call has failed the invocation has raised, it has produced
\* no result, the failed generation is not counted as an attempt, and nothing
\* (no execution, no correction request) happens afterwards.
C5_GenerationFailurePropagates ==
    /\ [](\A n \in 1..Len(corrections) :
             n <= NumExecutions /\ ~executions[n].ok)
    /\ [](generation_failed =>
             /\ critic_pc = "raised"
             /\ result = NoResult
             /\ attempt = NumExecutions
             /\ Len(corrections) = NumExecutions)
    /\ [][generation_failed => UNCHANGED critic_vars]_critic_vars

C5_Witness ==
    /\ generation_failed
    /\ critic_pc = "raised"
    /\ NumExecutions >= 2

(***************************************************************************)
(* Properties of SemanticResolver.enrich.                                  *)
(***************************************************************************)
Matches == enriched.column_matches

\* the combined score of section 4.1: max(lexical, semantic) in hybrid mode,
\* the lexical score alone otherwise
CombinedScore(kw, col) ==
    LET lexical == partial_ratio[<<kw, Lower(col)>>]
    IN  IF _mode = "hybrid"
        THEN LET semantic == cosine[<<kw, Lower(col)>>]
             IN  IF semantic >= lexical THEN semantic ELSE lexical
        ELSE lexical

\* C6: every match enrich returns has score >= fuzzy_threshold, and no two
\* returned matches are for the same (table, column) pair.
C6_MatchesClearThresholdOncePerColumn ==
    resolver_pc = "enriched" =>
        /\ \A i \in 1..Len(Matches) : Matches[i].score >= fuzzy_threshold
        /\ \A i, j \in 1..Len(Matches) :
               (Matches[i].table = Matches[j].table
                /\ Matches[i].column = Matches[j].column) => i = j

C6_Witness ==
    /\ resolver_pc = "enriched"
    /\ Len(Matches) >= 2
    /\ \E i \in 1..Len(Matches) : Matches[i].score = fuzzy_threshold
    /\ \E kw \in Keywords :
           /\ InSeq(kw, _extract_keywords(enrich_question))
           /\ \E i \in 1..Len(_all_columns) :
                  /\ DictHas(enrich_schema, _all_columns[i].table)
                  /\ CombinedScore(kw, _all_columns[i].column) < fuzzy_threshold

\* C7: a retained match carries the maximum combined score over the keywords
\* of the question for its (table, column) pair, and the first keyword, in
\* keyword order, that attains this maximum.
C7_BestKeywordPerColumn ==
    resolver_pc = "enriched" =>
        LET kws == _extract_keywords(enrich_question)
        IN  \A i \in 1..Len(Matches) :
                \E k \in 1..Len(kws) :
                    /\ Matches[i].keyword = kws[k]
                    /\ Matches[i].score = CombinedScore(kws[k], Matches[i].column)
                    /\ \A j \in 1..Len(kws) :
                           CombinedScore(kws[j], Matches[i].column) <= Matches[i].score
                    /\ \A j \in 1..(k - 1) :
                           CombinedScore(kws[j], Matches[i].column) < Matches[i].score

C7_Witness ==
    /\ resolver_pc = "enriched"
    /\ LET kws == _extract_keywords(enrich_question)
       IN  /\ Len(kws) = 2
           /\ kws[1] # kws[2]
           /\ \E i, j \in 1..Len(Matches) :
                  /\ CombinedScore(kws[1], Matches[i].column)
                         = CombinedScore(kws[2], Matches[i].column)
                  /\ Matches[i].keyword = kws[1]
                  /\ CombinedScore(kws[1], Matches[j].column)
                         < CombinedScore(kws[2], Matches[j].column)
                  /\ Matches[j].keyword = kws[2]

\* index of the first match for a table
FirstMatchOf(table) ==
    CHOOSE i \in 1..Len(Matches) :
        /\ Matches[i].table = table
        /\ \A j \in 1..(i - 1) : Matches[j].table # table

\* C8: relevant_tables has no duplicates, holds exactly the tables of the
\* returned column_matches, in the order of their first appearance there.
C8_RelevantTablesInFirstSeenOrder ==
    resolver_pc = "enriched" =>
        LET rel == enriched.relevant_tables
        IN  /\ \A i, j \in 1..Len(rel) : rel[i] = rel[j] => i = j
            /\ {rel[i] : i \in 1..Len(rel)}
                   = {Matches[i].table : i \in 1..Len(Matches)}
            /\ \A i, j \in 1..Len(rel) :
                   i < j => FirstMatchOf(rel[i]) < FirstMatchOf(rel[j])

C8_Witness ==
    /\ resolver_pc = "enriched"
    /\ Len(Matches) = 3
    /\ Matches[1].table = Matches[3].table
    /\ Matches[2].table # Matches[1].table
    /\ enriched.relevant_tables = <<Matches[1].table, Matches[2].table>>

\* C9: every match and every relevant table names a table that is a key of
\* the schema argument, whatever tables the cached column list holds.
C9_MatchesWithinSchemaArgument ==
    resolver_pc = "enriched" =>
        /\ \A i \in 1..Len(Matches) : DictHas(enrich_schema, Matches[i].table)
        /\ \A i \in 1..Len(enriched.relevant_tables) :
               DictHas(enrich_schema, enriched.relevant_tables[i])

\* a cached column of a table outside the schema argument that a keyword of
\* the question scores at or above the threshold
StaleColumnWouldMatch(i) ==
    /\ ~DictHas(enrich_schema, _all_columns[i].table)
    /\ \E kw \in Keywords :
           /\ InSeq(kw, _extract_keywords(enrich_question))
           /\ CombinedScore(kw, _all_columns[i].column) >= fuzzy_threshold

C9_Witness ==
    /\ resolver_pc = "enriched"
    /\ Len(Matches) >= 1
    /\ \E i \in 1..Len(_all_columns) :
           StaleColumnWouldMatch(i) /\ ~InSeq(_all_columns[i].table, _tables)

\* C10: value_hints holds one entry per returned match, in match order, keyed
\* "table.column", with at most 5 values; the entry of a column whose sampling
\* query fails is the empty list, and the matches and the other hints are
\* returned all the same.
C10_OneHintPerMatch ==
    resolver_pc = "enriched" =>
        LET hints == enriched.value_hints
        IN  /\ Len(hints) = Len(Matches)
            /\ \A i \in 1..Len(hints) :
                   /\ hints[i].key = Matches[i].table \o <<".">> \o Matches[i].column
                   /\ Len(hints[i].value) <= 5
                   /\ IF Matches[i].table \in DOMAIN conn
                         /\ IsPlainIdentifier(Matches[i].column)
                         /\ \E j \in 1..Len(conn[Matches[i].table]) :
                                conn[Matches[i].table][j].column = Matches[i].column
                      THEN \E j \in 1..Len(conn[Matches[i].table]) :
                               /\ conn[Matches[i].table][j].column = Matches[i].column
                               /\ IsPrefix(hints[i].value,
                                           conn[Matches[i].table][j].values)
                               /\ \/ Len(hints[i].value) = 5
                                  \/ hints[i].value = conn[Matches[i].table][j].values
                      ELSE hints[i].value = <<>>

C10_Witness ==
    /\ resolver_pc = "enriched"
    /\ Len(Matches) >= 2
    /\ \E i, j \in 1..Len(Matches) :
           /\ ~IsPlainIdentifier(Matches[i].column)
           /\ enriched.value_hints[i].value = <<>>
           /\ Len(enriched.value_hints[j].value) = 5
    /\ Len(enriched.relevant_tables) >= 1

\* the rendering of a whole schema with no hint section
FullSchemaRendering(schema, mode) ==
    [ mode   |-> mode,
      schema |-> [ blocks |-> [i \in 1..Len(schema) |->
                                  [table   |-> schema[i].key,
                                   columns |-> schema[i].value,
                                   note    |-> ""]],
                   relationships |-> "NORTHWIND_RELATIONSHIPS",
                   cross_rules   |-> <<>> ],
      hints  |-> [header |-> "", matches |-> <<>>, samples |-> <<>>] ]

\* no keyword of the question scores a column of the schema argument at or
\* above the threshold
NoKeywordReachesThreshold ==
    \A kw \in Keywords :
        InSeq(kw, _extract_keywords(enrich_question)) =>
            \A i \in 1..Len(_all_columns) :
                DictHas(enrich_schema, _all_columns[i].table) =>
                    CombinedScore(kw, _all_columns[i].column) < fuzzy_threshold

\* C11: when no keyword of the question reaches the threshold (also when the
\* question has no keyword at all), enrich returns without raising, with
\* empty column_matches, value_hints and relevant_tables, and
\* format_enriched_context of the result renders the whole schema that was
\* passed to enrich.
C11_NoMatchRendersFullSchema ==
    (resolver_pc \in {"enriched", "raised"} /\ NoKeywordReachesThreshold) =>
        /\ resolver_pc = "enriched"
        /\ enriched.column_matches = <<>>
        /\ enriched.value_hints = <<>>
        /\ enriched.relevant_tables = <<>>
        /\ enriched.original_schema = enrich_schema
        /\ context # NoContext => context = FullSchemaRendering(enrich_schema, _mode)

(***************************************************************************)
(* Properties of the pipeline.                                             *)
(***************************************************************************)
StreamPcs ==
    {"stream_analyzing", "stream_gate", "stream_select", "stream_searching",
     "stream_resolve", "stream_enrich", "stream_found", "stream_context",
     "stream_generate", "stream_sql", "stream_critic", "stream_report", "stream_summary_start", "stream_summary",
     "stream_done", "stream_raised"}

IsStreamRun == run_pc \in StreamPcs

IsRun == run_pc \in {"run_generate", "run_critic", "run_returned", "run_raised"}

\* the indices of the events of one type
EventsOfType(type) == {i \in 1..Len(events) : events[i].type = type}

\* the calls of one component
CallsOf(component) == {i \in 1..Len(calls) : calls[i].component = component}

\* the tokens of a question: the maximal runs of word characters of its
\* lower-cased text
QuestionTokens(q) ==
    LET lq == Lower(q)
    IN  { SubSeq(lq, p[1], p[2]) :
            p \in { r \in (1..Len(lq)) \X (1..Len(lq)) :
                      /\ r[1] <= r[2]
                      /\ \A n \in r[1]..r[2] : IsWordChar(lq[n])
                      /\ r[1] = 1 \/ ~IsWordChar(lq[r[1] - 1])
                      /\ r[2] = Len(lq) \/ ~IsWordChar(lq[r[2] + 1]) } }

\* w is one of the pieces the underscores cut a name into
IsFragmentOf(w, name) ==
    \E i \in 1..Len(name) :
        LET j == i + Len(w) - 1
        IN  /\ j <= Len(name)
            /\ SubSeq(name, i, j) = w
            /\ \A n \in i..j : name[n] # "_"
            /\ i = 1 \/ name[i - 1] = "_"
            /\ j = Len(name) \/ name[j + 1] = "_"

\* the column names and the table names of the engine's schema, lower-cased
SchemaNames ==
    {Lower(_tables[i]) : i \in 1..Len(_tables)}
    \cup UNION { {Lower(conn[t][j].column) : j \in 1..Len(conn[t])} : t \in DOMAIN conn }

InVocabulary(w) == \E name \in SchemaNames : IsFragmentOf(w, name)

NearTableName(w) ==
    \E i \in 1..Len(_tables) : partial_ratio[<<w, _tables[i]>>] >= 70

\* C12: _is_database_question returns false exactly for the questions in which
\* no token is an underscore-split fragment of a column or table name of the
\* schema and no token scores 70 or more against a table name.
C12_RelevanceCheckDecision ==
    \A i \in CallsOf("relevance") :
        calls[i].returned =
            (\E w \in QuestionTokens(request_question) :
                 InVocabulary(w) \/ NearTableName(w))

C12_Witness ==
    /\ \E i \in CallsOf("relevance") : calls[i].returned
    /\ request_question = <<"K">>
    /\ InVocabulary(<<"k">>)
    /\ ~NearTableName(<<"k">>)
    /\ Len(_tables) = 2

\* C13: in the streaming query a non-empty chat history means the relevance
\* check is not evaluated and the run goes on to schema resolution whatever
\* the question; with an empty history the check comes before any other stage.
C13_HistorySkipsRelevanceCheck ==
    /\ [](IsStreamRun =>
            /\ chat_history # <<>> =>
                  /\ CallsOf("relevance") = {}
                  /\ \A i \in EventsOfType("error") :
                         events[i].content # RejectionMessage
            /\ (chat_history = <<>>
                   /\ run_pc \notin {"stream_analyzing", "stream_gate"}) =>
                  /\ calls # <<>>
                  /\ calls[1].component = "relevance")
    /\ [][(run_pc = "stream_gate" /\ chat_history # <<>>)
             => run_pc' = "stream_select"]_all_vars
    /\ [][(run_pc = "stream_analyzing" /\ chat_history # <<>>)
             => run_pc' \in {"stream_select", "stream_searching"}]_all_vars

C13_Witness ==
    /\ run_pc = "stream_generate"
    /\ chat_history # <<>>
    /\ CallsOf("resolver") # {}
    /\ ~\E w \in QuestionTokens(request_question) : InVocabulary(w) \/ NearTableName(w)

\* C14: a rejected question ends the pipeline at the gate.  Orchestrator.run
\* returns success = false, attempts = 0 and the explanatory message; the
\* stream, once resumed with the answer of the check, emits one error event
\* and ends; neither invokes the resolver, the generator or the critic.
C14_RejectionEndsAtGate ==
    (\E i \in CallsOf("relevance") : ~calls[i].returned) =>
        /\ Len(calls) = 1
        /\ resolver_pc = "idle"
        /\ critic_pc = "idle"
        /\ executions = <<>>
        /\ context = NoContext
        /\ IsRun =>
              /\ run_pc = "run_returned"
              /\ run_result.success = FALSE
              /\ run_result.attempts = 0
              /\ run_result.error.text = RejectionMessage
        /\ IsStreamRun =>
              \/ /\ run_pc = "stream_gate"
                 /\ stream_read.thread = "returned"
                 /\ EventsOfType("error") = {}
              \/ /\ run_pc = "stream_done"
                 /\ Cardinality(EventsOfType("error")) = 1
                 /\ events[Len(events)].type = "error"
                 /\ events[Len(events)].content = RejectionMessage
                 /\ EventsOfType("sql") \cup EventsOfType("result") = {}

C14_Witness ==
    /\ run_pc = "run_returned"
    /\ run_result.success = FALSE
    /\ run_result.attempts = 0
    /\ Len(run_result.error.table_examples) = 2
    /\ calls = <<[component |-> "relevance", returned |-> FALSE]>>

AllThinkingBefore(n) == \A i \in 1..(n - 1) : events[i].type = "thinking"

EventsWithContent(content) == {i \in 1..Len(events) : events[i].content = content}

\* C15: the events of a streaming run follow the stage order: thinking events
\* of relevance and schema resolution first, then one sql event, then the
\* result event, then the summary events, then summary_done; no sql event
\* after a result event, no summary or summary_done event before it.
C15_EventsFollowStageOrder ==
    IsStreamRun =>
        /\ events[1].type = "thinking"
        /\ events[1].content = "Analyzing your question..."
        /\ Cardinality(EventsOfType("sql")) <= 1
        /\ Cardinality(EventsOfType("result")) <= 1
        /\ Cardinality(EventsOfType("summary_done")) <= 1
        /\ \A s \in EventsOfType("sql") :
               /\ AllThinkingBefore(s)
               /\ \E i, j \in 1..(s - 1) :
                      /\ i < j
                      /\ events[i].content = "Searching schema for relevant tables..."
                      /\ events[j].content = "Found relevant tables"
        /\ \A r \in EventsOfType("result") :
               /\ \E s \in EventsOfType("sql") : s < r
               /\ \A s \in EventsOfType("sql") : s < r
        /\ \A m \in EventsOfType("summary") \cup EventsOfType("summary_done") :
               \E r \in EventsOfType("result") : r < m
        /\ \A m \in EventsOfType("summary"), d \in EventsOfType("summary_done") : m < d
        /\ \A d \in EventsOfType("summary_done") :
               /\ d = Len(events)
               /\ Cardinality(EventsOfType("sql")) = 1
               /\ Cardinality(EventsOfType("result")) = 1

C15_Witness ==
    /\ run_pc = "stream_done"
    /\ [i \in 1..Len(events) |-> events[i].type]
           = <<"thinking", "thinking", "thinking", "sql", "thinking", "result",
               "thinking", "summary", "summary", "summary_done">>

\* C16: no event follows an error event of a streaming run, so a run emits at
\* most one error event and it is the last event of the stream.
C16_ErrorEventIsLast ==
    IsStreamRun =>
        /\ \A i \in EventsOfType("error") : i = Len(events) /\ run_pc = "stream_done"
        /\ Cardinality(EventsOfType("error")) <= 1

C16_Witness ==
    /\ run_pc = "stream_done"
    /\ events[Len(events)].type = "error"
    /\ events[Len(events)].content = "critic"
    /\ result.attempts = DefaultMaxRetries
    /\ Len(events) = 6

CriticOutcomeEvents == EventsOfType("result") \cup EventsWithContent("critic")

\* C17: the "Refining query..." event is emitted exactly when the critic
\* reports attempts > 1, before the result event or the error event that
\* reports the outcome of those attempts.
C17_RefineNoticeBeforeOutcome ==
    IsStreamRun =>
        LET notices == EventsWithContent("Refining query...")
        IN  /\ Cardinality(notices) <= 1
            /\ notices # {} => critic_pc = "returned" /\ result.attempts > 1
            /\ \A n \in notices :
                   /\ events[n].type = "thinking"
                   /\ events[n].detail = result.attempts
                   /\ \A o \in CriticOutcomeEvents : n < o
            /\ (run_pc = "stream_report" \/ CriticOutcomeEvents # {}) =>
                   (notices # {} <=> result.attempts > 1)

C17_Witness ==
    /\ run_pc = "stream_summary_start"
    /\ result.attempts = 2
    /\ \E n \in EventsWithContent("Refining query...") :
           \E o \in EventsOfType("result") : n + 1 = o

\* C18: when the text-generation capability fails during SQL generation or a
\* correction, the streaming run ends with an error event as its last event,
\* Orchestrator.run reports the failure to its caller, and no result is
\* produced.
C18_GenerationFailureReported ==
    /\ run_pc = "stream_raised" =>
           /\ events[Len(events)].type = "error"
           /\ EventsOfType("result") = {}
    /\ (generation_failed /\ IsRun) => run_result = NoResult

\* C19: when the summary stream fails after a successful execution the result
\* stands: the result event, with its data, row count and attempts, is already
\* in the stream, the failure is one separate later event, and no summary_done
\* event is emitted.
C19_SummaryFailureKeepsResult ==
    /\ [](IsStreamRun =>
            \A e \in EventsWithContent("Insight generation failed") :
                /\ e = Len(events)
                /\ Cardinality(EventsOfType("error")) = 1
                /\ EventsOfType("summary_done") = {}
                /\ result.success
                /\ \E r \in EventsOfType("result") :
                       /\ r < e
                       /\ events[r].detail =
                              [records   |-> Records(result.data),
                               row_count |-> Len(Records(result.data)),
                               attempts  |-> result.attempts])
    /\ [][IsPrefix(events, events')]_all_vars

C19_Witness ==
    /\ run_pc = "stream_done"
    /\ EventsWithContent("Insight generation failed") # {}
    /\ Cardinality(EventsOfType("summary")) = 1
    /\ Cardinality(EventsOfType("result")) = 1

\* C20: every value Orchestrator.run returns carries success, sql and
\* attempts and the fields question, relevant_tables and column_matches, for
\* accepted and for rejected questions.
C20_RunReturnsPipelineResult ==
    run_pc = "run_returned" =>
        {"success", "sql", "attempts", "question", "relevant_tables",
         "column_matches"} \subseteq DOMAIN run_result

(***************************************************************************)
(* The resolver cache and the engine's schema.                             *)
(***************************************************************************)
CacheMatchesEngine ==
    /\ _schema = get_schema(_tables, conn)
    /\ _all_columns = FlattenSchema(get_schema(_tables, conn))

\* C22: after every completed schema-altering operation (initial load, upload,
\* drop) the resolver's cached schema and column list equal the engine's
\* current schema.
C22_CacheFollowsEngineSchema ==
    (\A r \in RequestIds : ~InProgress(r)) => CacheMatchesEngine

(***************************************************************************)
(* The utility functions.                                                  *)
(***************************************************************************)
IsLowerWordChar(c) == IsWordChar(c) /\ c \notin UpperCase

\* C27: sanitize_identifier returns a non-empty string of at most 64
\* characters, all lower-case letters, digits or underscores, the first a
\* letter or an underscore; when the input without its other characters is
\* empty or starts with a digit the result is "t_" followed by it, otherwise
\* it is the input without its other characters; lower-cased and cut to 64
\* characters in both cases.
C27_SanitizedIdentifier ==
    util_pc = "sanitize_identifier" =>
        LET removed == SelectSeq(util_input, IsWordCharTest)
            named   == IF removed = <<>> \/ removed[1] \in Digits
                       THEN <<"t", "_">> \o removed
                       ELSE removed
        IN  /\ util_output # <<>>
            /\ Len(util_output) <= 64
            /\ \A i \in 1..Len(util_output) : IsLowerWordChar(util_output[i])
            /\ IsLetterOrUnderscore(util_output[1])
            /\ util_output = Lower(SubSeq(named, 1, IF Len(named) < 64
                                                    THEN Len(named) ELSE 64))

\* a name of more than 64 characters that starts with a digit has been
\* prefixed, lower-cased and cut
C27_Witness ==
    /\ util_pc = "sanitize_identifier"
    /\ Len(util_input) > 64
    /\ util_input[1] \in Digits
    /\ Len(util_output) = 64
    /\ SubSeq(util_output, 1, 3) = <<"t", "_", "1">>

\* C28: clean_sql is idempotent: cleaning what clean_sql returned gives the
\* same text.
C28_CleanSqlIdempotent ==
    util_pc = "clean_sql" => util_output[2] = util_output[1]

HasFence(line) == \E i \in 1..Len(line) : line[i] = "fence"

\* the lines are prose, one fenced block, prose: the block opens at line i
\* and closes at line j, and no other line holds a fence
IsFencedAt(lines, i, j) ==
    /\ i < j
    /\ IsFenceOpen(lines[i])
    /\ IsFenceClose(lines[j])
    /\ \A k \in 1..Len(lines) : k \notin {i, j} => ~HasFence(lines[k])
    /\ \A k \in 1..(Len(lines[i]) - 1) :
          lines[i][k] = "fence" => lines[i][k + 1] # "fence"

\* the statement between the fences
FencedStatement(lines, i, j) == Strip(JoinLines(SubSeq(lines, i + 1, j - 1)))

\* C29: clean_sql returns the stripped input unchanged when that begins with
\* a statement keyword in either case; for a text that is exactly one fenced
\* block it returns the statement between the two fence lines; and when prose
\* surrounds the block the statement is still contained in the result.
C29_CleanSqlCases ==
    util_pc = "clean_sql" =>
        LET cleaned == Strip(util_input)
            lines   == SplitLines(cleaned)
            out     == util_output[1]
        IN  /\ (cleaned # <<>> /\ cleaned[1] \in {"SELECT", "select", "WITH", "with"})
                   => out = cleaned
            /\ (Len(lines) >= 2 /\ IsFencedAt(lines, 1, Len(lines)))
                   => out = FencedStatement(lines, 1, Len(lines))
            /\ \A i, j \in 1..Len(lines) :
                   IsFencedAt(lines, i, j)
                       => Contains(out, FencedStatement(lines, i, j))

\* a statement in a fenced block with prose before and after it
C29_Witness ==
    /\ util_pc = "clean_sql"
    /\ LET lines == SplitLines(Strip(util_input))
       IN  /\ Len(lines) = 5
           /\ IsFencedAt(lines, 2, 4)
           /\ lines[1] = <<"sql">>
           /\ lines[5] = <<"sql">>
           /\ FencedStatement(lines, 2, 4) = <<"select">>
           /\ Contains(util_output[1], <<"select">>)

\* the pieces of the lower-cased question between its non-word characters
QuestionPieces(q) ==
    LET pieces == SplitWords(Lower(q), <<>>, FALSE)
    IN  {pieces[i] : i \in 1..Len(pieces)}

\* C30: every keyword extracted from a question, and every keyword recorded
\* in a ColumnMatch, is a non-empty lower-case token of the question outside
\* the stop-word set.
C30_KeywordsAreTokens ==
    util_pc = "_extract_keywords" =>
        LET keywords == {util_output[1][i] : i \in 1..Len(util_output[1])}
            scored   == {util_output[2][i].keyword : i \in 1..Len(util_output[2])}
        IN  /\ scored \subseteq keywords
            /\ \A kw \in keywords :
                  /\ kw # <<>>
                  /\ \A i \in 1..Len(kw) : kw[i] \notin UpperCase
                  /\ kw \in QuestionPieces(util_input)
                  /\ kw \notin _STOP_WORDS

\* a question with a stop word and an upper-case word: the stop word is not a
\* keyword, the other word is one and is recorded in a match
C30_Witness ==
    /\ util_pc = "_extract_keywords"
    /\ <<"a">> \in QuestionPieces(util_input)
    /\ util_output[1] = << <<"k">> >>
    /\ \E i \in 1..Len(util_output[2]) : util_output[2][i].keyword = <<"k">>

(***************************************************************************)
(* Concurrent critic calls.                                                *)
(***************************************************************************)
\* C26: with several runs on the shared critic, the attempt history passed to
\* any correction request of a run holds exactly the statements and errors of
\* that run's own failed attempts so far, in that run's order.
C26_HistoryIsPerRun ==
    \A r \in CriticRuns :
        \A k \in 1..Len(critic_runs[r].corrections) :
            LET prompt == critic_runs[r].corrections[k]
            IN  /\ Len(prompt.attempts) = k
                /\ \A i \in 1..k :
                      /\ prompt.attempts[i].sql = critic_runs[r].failures[i].sql
                      /\ prompt.attempts[i].error = critic_runs[r].failures[i].error

\* both runs have built a second correction prompt after failing with
\* different statements and errors, their calls interleaved
C26_Witness ==
    /\ \A r \in CriticRuns : Len(critic_runs[r].corrections) = 2
    /\ critic_runs[1].pc = "correcting"
    /\ critic_runs[2].pc = "correcting"
    /\ critic_runs[1].failures[1] # critic_runs[2].failures[1]
    /\ critic_runs[1].failures[2] # critic_runs[2].failures[2]

(***************************************************************************)
(* A stream in flight during uploads and drops.                            *)
(***************************************************************************)
\* the two reads saw the same tables with the same columns, as far as both
\* looked: the context assembly looks at the selected tables only
SameVersion(a, b) ==
    IF a.stage # "context" /\ b.stage # "context"
    THEN a.schema = b.schema
    ELSE \A i \in 1..Len(selectedTables) :
            LET t == selectedTables[i]
            IN  /\ DictHas(a.schema, t) <=> DictHas(b.schema, t)
                /\ DictHas(a.schema, t) /\ DictHas(b.schema, t)
                       => DictGet(a.schema, t) = DictGet(b.schema, t)

\* C24: a stream in flight while a table is uploaded or dropped observes one
\* schema version throughout: its relevance check, its schema resolution and
\* its context assembly read the same schema.
C24_OneSchemaVersionPerRun ==
    \A i, j \in 1..Len(schema_reads) : SameVersion(schema_reads[i], schema_reads[j])

(***************************************************************************)
(* Upload and drop requests in flight together.                            *)
(***************************************************************************)
\* C23: at most one schema-altering operation (upload or drop) is in progress
\* at any time: the steps of two such requests never interleave.
C23_OneMutationAtATime ==
    \A r1, r2 \in RequestIds : InProgress(r1) /\ InProgress(r2) => r1 = r2

\* C25: table names in the registry are unique: engine._tables holds no name
\* twice, whatever the interleaving of the upload and drop requests.
C25_RegistryNamesUnique ==
    (\A r \in RequestIds : ~InProgress(r))
        => \A i, j \in 1..Len(_tables) : _tables[i] = _tables[j] => i = j

(***************************************************************************)
(* enrich during refresh_schema.                                           *)
(***************************************************************************)
\* C21: an enrich call that runs while refresh_schema is in progress never
\* observes a partially updated resolver: for every keyword of the call, the
\* column list and the column embeddings it reads belong to one schema
\* version, the same for all keywords.
C21_EnrichReadsOneVersion ==
    \A i, j \in 1..Len(enrich_call.reads) :
        /\ enrich_call.reads[i].columns = enrich_call.reads[j].columns
        /\ _mode = "hybrid" =>
              enrich_call.reads[i].embeddings
                  = EncodeColumns(enrich_call.reads[i].columns)

(***************************************************************************)
(* The critic without a budget.                                            *)
(***************************************************************************)
\* C35: with max_retries = 0 execute_with_retry executes nothing, requests no
\* correction and returns success=false, attempts=0, the input statement and
\* the error "Max retries exceeded"; with max_retries >= 1 that result is
\* never returned.
C35_ExceededOnlyWithoutBudget ==
    /\ [](critic_pc = "returned" =>
            IF max_retries = 0
            THEN /\ executions = <<>>
                 /\ corrections = <<>>
                 /\ result = [success |-> FALSE, sql |-> current_sql,
                              error |-> "Max retries exceeded", attempts |-> 0]
            ELSE result.success \/ result.error # "Max retries exceeded")
    /\ [][max_retries = 0 => current_sql' = current_sql]_all_vars

\* a call with max_retries = 0 has returned
C35_Witness ==
    /\ max_retries = 0
    /\ critic_pc = "returned"
    /\ result.attempts = 0

(***************************************************************************)
(* The registry and the dataset under sequential upload and drop requests. *)
(***************************************************************************)
\* C36: after any sequence of completed, non-overlapping upload and drop
\* requests starting from the initial load, every name in engine._tables is an
\* existing table, every table created by load or upload is in engine._tables,
\* and get_schema returns exactly one entry per registered table, in registry
\* order, with that table's columns in table order.
C36_RegistryAgreesWithDataset ==
    (\A r \in RequestIds : ~InProgress(r)) =>
    /\ \A i \in 1..Len(_tables) : _tables[i] \in DOMAIN conn
    /\ \A t \in DOMAIN conn : InSeq(t, _tables)
    /\ Len(get_schema(_tables, conn)) = Len(_tables)
    /\ \A i \in 1..Len(_tables) :
          /\ get_schema(_tables, conn)[i].key = _tables[i]
          /\ Len(get_schema(_tables, conn)[i].value) = Len(conn[_tables[i]])
          /\ \A j \in 1..Len(conn[_tables[i]]) :
                get_schema(_tables, conn)[i].value[j] =
                    [column |-> conn[_tables[i]][j].column,
                     type   |-> conn[_tables[i]][j].type]

\* table a was loaded, then replaced by an upload and so moved behind b
C36_Witness ==
    /\ requests[1].pc = "done"
    /\ requests[1].file = FileA2
    /\ _tables = << <<"b">>, <<"a">> >>
    /\ conn[<<"a">>] = FileA2.content
    /\ DictKeys(get_schema(_tables, conn)) = _tables

\* C37: an upload request that fails (HTTP 500) leaves the table registry,
\* the tables of the dataset and the resolver snapshot as they were before the
\* request, also when the file name maps to a table that already exists.
C37_FailedUploadChangesNothing ==
    \A r \in SequentialIds :
        requests[r].pc = "failed" => SharedState = requests[r].before

(***************************************************************************)
(* The two variants of the pipeline side by side.                          *)
(***************************************************************************)
\* the stream has called the generator
StreamGenerated ==
    run_pc \in {"stream_sql", "stream_critic", "stream_report",
                "stream_summary_start", "stream_summary", "stream_done",
                "stream_raised"}
       /\ \E i \in 1..Len(calls) : calls[i].component = "generator"

\* C33: the streaming variant performs the same context assembly as
\* Orchestrator.run: the context given to SQL generation is the resolver's
\* formatted enriched context with the detected join relationships and the
\* categorical values appended.
C33_StreamContextIsRunContext ==
    StreamGenerated =>
        context = RunContext(enriched, _mode, get_schema(_tables, conn), conn)

\* the stream was not rejected by the relevance check: the check returned
\* true or was skipped mid-conversation
StreamAccepted ==
    /\ IsStreamRun
    /\ chat_history # <<>> \/ \E i \in CallsOf("relevance") : calls[i].returned

\* C34 as stated: an accepted streaming run emits exactly one sql event,
\* before the critic executes anything, and its content is the statement
\* handed to the critic as the first attempt; statements produced by
\* corrections are never emitted as events, and the number of attempts is
\* carried by the result event.
C34_AcceptedRunEmitsOneSqlEvent ==
    /\ (StreamAccepted /\ run_pc = "stream_done") =>
           Cardinality(EventsOfType("sql")) = 1
    /\ IsStreamRun =>
           /\ Cardinality(EventsOfType("sql")) <= 1
           /\ executions # <<>> =>
                 \E s \in EventsOfType("sql") : events[s].detail = executions[1].sql
           /\ \A r \in EventsOfType("result") :
                 events[r].detail.attempts = result.attempts

\* C34, amended: a streaming run emits at most one sql event: none when it
\* ends before a statement is generated (rejection, "No tables found", a
\* raising generation call), and exactly one once generate_from_context has
\* returned, before the critic is entered and so before it executes anything;
\* its content is the statement handed to the critic as the first attempt;
\* statements produced by corrections are never emitted; the result event
\* carries the number of attempts.
C34_OneSqlEventFirstStatement ==
    IsStreamRun =>
        /\ Cardinality(EventsOfType("sql")) <= 1
        /\ EventsOfType("sql") # {}
              <=> \E g \in CallsOf("generator") : calls[g].returned
        /\ CallsOf("critic") = {} => executions = <<>>
        /\ CallsOf("critic") # {} => EventsOfType("sql") # {}
        /\ \A s \in EventsOfType("sql") :
              /\ CallsOf("critic") = {} =>
                    run_pc = "stream_sql" /\ events[s].detail = stream_read.value
              /\ (CallsOf("critic") # {} /\ executions = <<>>) =>
                    events[s].detail = current_sql
              /\ executions # <<>> => events[s].detail = executions[1].sql
              /\ \A o \in CriticOutcomeEvents : s < o
        /\ \A r \in EventsOfType("result") :
              /\ events[r].detail.attempts = result.attempts
              /\ events[r].detail.attempts = Len(executions)
        /\ run_pc = "stream_done" =>
              \/ EventsOfType("sql") # {}
              \/ events[Len(events)].content \in {RejectionMessage, NoTablesMessage}

\* the second attempt ran a corrected statement that differs from the emitted one
C34_Witness ==
    /\ run_pc = "stream_summary_start"
    /\ Len(executions) = 2
    /\ executions[2].sql # executions[1].sql
    /\ \E s \in EventsOfType("sql") : events[s].detail = executions[1].sql
    /\ \E r \in EventsOfType("result") : events[r].detail.attempts = 2

\* the components called so far, the relevance check left out
StageCalls ==
    LET IsStage(c) == c.component # "relevance"
    IN  [i \in 1..Len(SelectSeq(calls, IsStage)) |->
            SelectSeq(calls, IsStage)[i].component]

\* C32: in every accepted run, of Orchestrator.run and of the stream, the
\* stages run in the order schema resolution, context assembly, SQL
\* generation, self-correcting execution, optional summary; none starts
\* before its predecessor has completed, and the generator is invoked exactly
\* once, before the first execution of a generated statement.
C32_StagesInOrder ==
    (IsStreamRun \/ IsRun) =>
        /\ \E n \in 0..3 : StageCalls = SubSeq(<<"resolver", "generator", "critic">>, 1, n)
        /\ CallsOf("resolver") # {} <=> resolver_pc = "enriched"
        /\ context # NoContext => resolver_pc = "enriched"
        /\ CallsOf("generator") # {} => context # NoContext
        /\ critic_pc # "idle" <=> CallsOf("critic") # {}
        /\ CallsOf("critic") # {} =>
              \A g \in CallsOf("generator") : calls[g].returned
        /\ executions # <<>> =>
              /\ Cardinality(CallsOf("generator")) = 1
              /\ critic_pc # "idle"
        /\ (EventsOfType("summary") \cup EventsOfType("summary_done") # {}
              \/ run_pc \in {"stream_summary_start", "stream_summary"}) =>
              /\ critic_pc = "returned"
              /\ result.success
              /\ EventsOfType("result") # {}

\* a stream that went through every stage, the summary included, after a retry
C32_Witness ==
    /\ run_pc = "stream_done"
    /\ EventsOfType("summary_done") # {}
    /\ StageCalls = <<"resolver", "generator", "critic">>
    /\ Len(executions) = 2
    /\ context # NoContext

====
